---- MODULE Spec2Model ----
(***************************************************************************)
(* Provider availability, slot generation and booking conflict handling   *)
(* of the PearlConnect back end.                                           *)
(*                                                                         *)
(* A Date is an integer count of minutes since the epoch; the server       *)
(* process runs in UTC, so getHours/getDay/setHours and toISOString agree  *)
(* on the calendar day.  A time string is a sequence of one-character      *)
(* strings, so that parsing and formatting are computed, not assumed.      *)
(***************************************************************************)
EXTENDS Integers, Sequences, FiniteSets, TLC

VARIABLES availabilities, bookings, nextId, reqs, slotsResp, timeCall, loop, registry

vars == <<availabilities, bookings, nextId, reqs, slotsResp, timeCall, loop, registry>>

----------------------------------------------------------------------------
(* Characters and time strings *)

Digits == <<"0", "1", "2", "3", "4", "5", "6", "7", "8", "9">>

IsDigit(c) == \E i \in 1..10 : Digits[i] = c

DigitVal(c) == (CHOOSE i \in 1..10 : Digits[i] = c) - 1

\* String.prototype.toUpperCase on the letters a period can hold
Upper(c) ==
  CASE c = "a" -> "A"
    [] c = "p" -> "P"
    [] c = "m" -> "M"
    [] OTHER -> c

\* the characters \s matches among those the inputs use
IsSpace(c) == c \in {" ", "\t"}

MinutesPerDay == 1440

\* parseInt of one or two decimal digits
parseInt(ds) ==
  IF Len(ds) = 1 THEN DigitVal(ds[1]) ELSE 10 * DigitVal(ds[1]) + DigitVal(ds[2])

\* the null a failed match returns
NullTime == [ok |-> FALSE, hours |-> 0, minutes |-> 0]

\* position of the ':' that ends the \d{1,2} group, 0 when the prefix does not match
ColonPos(s) ==
  IF Len(s) >= 2 /\ IsDigit(s[1]) /\ s[2] = ":" THEN 2
  ELSE IF Len(s) >= 3 /\ IsDigit(s[1]) /\ IsDigit(s[2]) /\ s[3] = ":" THEN 3
  ELSE 0

\* index of the first character of the (AM|PM) group, after \d{2} and \s?
PeriodPos(s, p) == IF Len(s) >= p + 3 /\ IsSpace(s[p + 3]) THEN p + 4 ELSE p + 3

\* /^(\d{1,2}):(\d{2})\s?(AM|PM)$/i
ParseRegexMatches(s) ==
  LET p == ColonPos(s) IN
    /\ p > 0
    /\ Len(s) >= p + 2
    /\ IsDigit(s[p + 1]) /\ IsDigit(s[p + 2])
    /\ LET q == PeriodPos(s, p) IN
         /\ Len(s) = q + 1
         /\ Upper(s[q]) \in {"A", "P"}
         /\ Upper(s[q + 1]) = "M"

\* /^(0?[1-9]|1[0-2]):([0-5]\d)\s?(AM|PM)$/i
TimeRegexTest(s) ==
  /\ ParseRegexMatches(s)
  /\ LET p  == ColonPos(s)
         hh == SubSeq(s, 1, p - 1)
     IN /\ \/ Len(hh) = 1 /\ DigitVal(hh[1]) \in 1..9
           \/ Len(hh) = 2 /\ hh[1] = "0" /\ DigitVal(hh[2]) \in 1..9
           \/ Len(hh) = 2 /\ hh[1] = "1" /\ DigitVal(hh[2]) \in 0..2
        /\ DigitVal(s[p + 1]) \in 0..5

\* the parser without the line that maps 12 AM to hour 0
parseTimeString_NoMidnight(timeStr) ==
  IF ~ParseRegexMatches(timeStr) THEN NullTime
  ELSE
    LET p       == ColonPos(timeStr)
        q       == PeriodPos(timeStr, p)
        h0      == parseInt(SubSeq(timeStr, 1, p - 1))
        minutes == parseInt(SubSeq(timeStr, p + 1, p + 2))
        period  == Upper(timeStr[q])
        hours   == IF period = "P" /\ h0 # 12 THEN h0 + 12 ELSE h0
    IN [ok |-> TRUE, hours |-> hours, minutes |-> minutes]

parseTimeString(timeStr) ==
  IF ~ParseRegexMatches(timeStr) THEN NullTime
  ELSE
    LET p       == ColonPos(timeStr)
        q       == PeriodPos(timeStr, p)
        h0      == parseInt(SubSeq(timeStr, 1, p - 1))
        minutes == parseInt(SubSeq(timeStr, p + 1, p + 2))
        period  == Upper(timeStr[q])
        hours   == IF period = "P" /\ h0 # 12 THEN h0 + 12
                   ELSE IF period = "A" /\ h0 = 12 THEN 0
                   ELSE h0
    IN [ok |-> TRUE, hours |-> hours, minutes |-> minutes]

\* Date.prototype.getHours / getMinutes / getDay and the calendar day of toISOString
getHours(date) == (date % MinutesPerDay) \div 60

getMinutes(date) == date % 60

\* day 0 (1970-01-01) is a Thursday
getDay(date) == ((date \div MinutesPerDay) + 4) % 7

IsoDay(date) == date \div MinutesPerDay

\* new Date(date) followed by setHours(h, m, 0, 0)
setHours(date, h, m) == IsoDay(date) * MinutesPerDay + h * 60 + m

\* Number.prototype.toString of 0..99, and padStart(2, '0')
NumStr(n) == IF n >= 10 THEN <<Digits[1 + (n \div 10)], Digits[1 + (n % 10)]>> ELSE <<Digits[n + 1]>>

PadStart2(n) == <<Digits[1 + (n \div 10)], Digits[1 + (n % 10)]>>

formatTimeString(date) ==
  LET hours        == getHours(date)
      minutes      == PadStart2(getMinutes(date))
      period       == IF hours >= 12 THEN <<"P", "M">> ELSE <<"A", "M">>
      displayHours == IF hours = 0 THEN 12 ELSE IF hours > 12 THEN hours - 12 ELSE hours
  IN NumStr(displayHours) \o <<":">> \o minutes \o <<" ">> \o period

\* src/unnamed/part_013 carries its own copies of the two helpers
parseTimeStringInternal(timeStr) ==
  IF ~ParseRegexMatches(timeStr) THEN NullTime
  ELSE
    LET p       == ColonPos(timeStr)
        q       == PeriodPos(timeStr, p)
        h0      == parseInt(SubSeq(timeStr, 1, p - 1))
        minutes == parseInt(SubSeq(timeStr, p + 1, p + 2))
        period  == Upper(timeStr[q])
        hours   == IF period = "P" /\ h0 # 12 THEN h0 + 12
                   ELSE IF period = "A" /\ h0 = 12 THEN 0
                   ELSE h0
    IN [ok |-> TRUE, hours |-> hours, minutes |-> minutes]

formatTimeStringInternal(date) ==
  LET hours        == getHours(date)
      minutes      == PadStart2(getMinutes(date))
      period       == IF hours >= 12 THEN <<"P", "M">> ELSE <<"A", "M">>
      displayHours == IF hours = 0 THEN 12 ELSE IF hours > 12 THEN hours - 12 ELSE hours
  IN NumStr(displayHours) \o <<":">> \o minutes \o <<" ">> \o period

----------------------------------------------------------------------------
(* Slot generation of the availability controller *)

\* the callback of breakTimes.some: "true", "false", or "throw" when a null
\* parse result is dereferenced (&& and || evaluate left to right)
isDuringBreak(breakTime, currentTime, slotEndTime) ==
  LET breakStart    == parseTimeString(breakTime.startTime)
      breakEnd      == parseTimeString(breakTime.endTime)
      slotStartHour == getHours(currentTime)
      slotEndHour   == getHours(slotEndTime)
  IN IF ~breakStart.ok THEN "throw"
     ELSE IF ~(slotStartHour >= breakStart.hours
               \/ (slotStartHour = breakStart.hours
                   /\ getMinutes(currentTime) >= breakStart.minutes))
          THEN "false"
     ELSE IF ~breakEnd.ok THEN "throw"
     ELSE IF slotEndHour <= breakEnd.hours
             \/ (slotEndHour = breakEnd.hours /\ getMinutes(slotEndTime) <= breakEnd.minutes)
          THEN "true"
     ELSE "false"

\* Array.prototype.some over breakTimes, from index i on
RECURSIVE SomeBreak(_, _, _, _)
SomeBreak(breakTimes, i, currentTime, slotEndTime) ==
  IF i > Len(breakTimes) THEN "false"
  ELSE LET r == isDuringBreak(breakTimes[i], currentTime, slotEndTime)
       IN IF r = "false" THEN SomeBreak(breakTimes, i + 1, currentTime, slotEndTime)
          ELSE r

\* the slot's end: currentTime + slotDuration minutes
SlotEndTime(currentTime, slotDuration) == currentTime + slotDuration

\* the push condition without its end-of-window clause
EmitSlot_NoEndCheck(duringBreak, slotEndTime, endDateTime) == ~duringBreak

\* the condition under which the candidate is pushed
EmitSlot(duringBreak, slotEndTime, endDateTime) ==
  ~duringBreak /\ slotEndTime <= endDateTime

\* the next candidate an hour after this one, whatever the duration
NextSlotStart_HourStep(currentTime, slotDuration, bufferTime) ==
  SlotEndTime(currentTime, 60) + bufferTime

\* the next candidate after the buffer only, the duration forgotten
NextSlotStart_BufferOnly(currentTime, slotDuration, bufferTime) ==
  currentTime + bufferTime

\* the start of the next candidate
NextSlotStart(currentTime, slotDuration, bufferTime) ==
  SlotEndTime(currentTime, slotDuration) + bufferTime

\* what one pass of the loop body pushes: the candidate, or nothing
LoopPush(currentTime, endDateTime, slotDuration, breakTimes) ==
  IF EmitSlot(SomeBreak(breakTimes, 1, currentTime, SlotEndTime(currentTime, slotDuration))
                = "true",
              SlotEndTime(currentTime, slotDuration), endDateTime)
  THEN <<[startTime |-> formatTimeString(currentTime),
          endTime   |-> formatTimeString(SlotEndTime(currentTime, slotDuration)),
          available |-> TRUE]>>
  ELSE <<>>

\* the while loop from currentTime on: whether a pass throws
RECURSIVE LoopThrows(_, _, _, _, _)
LoopThrows(currentTime, endDateTime, slotDuration, bufferTime, breakTimes) ==
  IF ~(currentTime < endDateTime) THEN FALSE
  ELSE \/ SomeBreak(breakTimes, 1, currentTime, SlotEndTime(currentTime, slotDuration))
            = "throw"
       \/ LoopThrows(NextSlotStart(currentTime, slotDuration, bufferTime),
                     endDateTime, slotDuration, bufferTime, breakTimes)

\* the while loop from currentTime on: the slots in the order they are pushed
RECURSIVE LoopSlots(_, _, _, _, _)
LoopSlots(currentTime, endDateTime, slotDuration, bufferTime, breakTimes) ==
  IF ~(currentTime < endDateTime) THEN <<>>
  ELSE LoopPush(currentTime, endDateTime, slotDuration, breakTimes)
         \o LoopSlots(NextSlotStart(currentTime, slotDuration, bufferTime),
                      endDateTime, slotDuration, bufferTime, breakTimes)

\* the result is [threw, slots]: no slots are returned when a pass throws
GenLoop(currentTime, endDateTime, slotDuration, bufferTime, breakTimes) ==
  IF LoopThrows(currentTime, endDateTime, slotDuration, bufferTime, breakTimes)
  THEN [threw |-> TRUE, slots |-> <<>>]
  ELSE [threw |-> FALSE,
        slots |-> LoopSlots(currentTime, endDateTime, slotDuration, bufferTime, breakTimes)]

generateTimeSlots(startTime, endTime, slotDuration, bufferTime, breakTimes, date) ==
  LET start == parseTimeString(startTime)
      end   == parseTimeString(endTime)
  IN IF ~start.ok \/ ~end.ok THEN [threw |-> TRUE, slots |-> <<>>]
     ELSE GenLoop(setHours(date, start.hours, start.minutes),
                  setHours(date, end.hours, end.minutes),
                  slotDuration, bufferTime, breakTimes)

----------------------------------------------------------------------------
(* Users, services and the stored collections *)

\* the users collection: ids and the role each token carries
Users == {"c1", "c2", "p1", "p2", "adm"}

Role(u) ==
  CASE u \in {"c1", "c2"} -> "customer"
    [] u \in {"p1", "p2"} -> "provider"
    [] OTHER -> "admin"

\* the services collection: service id -> owning provider
Services == {"s1", "s2"}

ServiceProvider(sv) == IF sv = "s1" THEN "p1" ELSE "p2"

\* an absent (undefined) time string, reason or id: falsy in JavaScript
NoTime == <<>>

NoStr == ""

\* Availability.findOne({ providerId }): the set holding the match, or {}
AvailabilityFindOne(providerId) ==
  LET m == {a \in availabilities : a.providerId = providerId}
  IN IF m = {} THEN {} ELSE {CHOOSE a \in m : TRUE}

\* Array.prototype.find over the indexes that satisfy the callback: the first of
\* them, 0 when there is none
FirstIndex(hits) ==
  IF hits = {} THEN 0 ELSE CHOOSE i \in hits : \A j \in hits : i <= j

\* schedules.find(s => s.dayOfWeek === dayOfWeek && s.isEnabled)
findSchedule(schedules, dayOfWeek) ==
  FirstIndex({i \in 1..Len(schedules) :
                schedules[i].dayOfWeek = dayOfWeek /\ schedules[i].isEnabled})

\* exceptions.find(e => e.date.toISOString().split('T')[0] === dateStr)
findException(exceptions, requestedDate) ==
  FirstIndex({i \in 1..Len(exceptions) : IsoDay(exceptions[i].date) = IsoDay(requestedDate)})

----------------------------------------------------------------------------
(* GET /provider/:providerId/slots *)

Response(status, err, slots, message, startTime, endTime, timezone) ==
  [status |-> status, err |-> err, slots |-> slots, message |-> message,
   startTime |-> startTime, endTime |-> endTime, timezone |-> timezone]

ErrResponse(status, err) == Response(status, err, <<>>, NoStr, NoTime, NoTime, NoStr)

\* new Date(date) of the query parameter: an unparsable string gives NaN
InvalidDate == -1

\* the part of the handler after the availability document is found
getSlotsFound(availability, requestedDate) ==
  LET dayOfWeek == getDay(requestedDate)
      si == findSchedule(availability.schedules, dayOfWeek)
  IN IF si = 0
     THEN Response(200, NoStr, <<>>, "No available slots for this day", NoTime, NoTime, NoStr)
     ELSE
       LET schedule == availability.schedules[si]
           ei == findException(availability.exceptions, requestedDate)
           hasException == ei # 0
           exception == availability.exceptions[ei]
       IN IF hasException /\ ~exception.isAvailable
          THEN Response(200, NoStr, <<>>,
                        IF exception.reason # NoStr THEN exception.reason
                        ELSE "Unavailable due to exception",
                        NoTime, NoTime, NoStr)
          ELSE
            LET startTime == IF hasException /\ exception.customStartTime # NoTime
                             THEN exception.customStartTime ELSE schedule.startTime
                endTime   == IF hasException /\ exception.customEndTime # NoTime
                             THEN exception.customEndTime ELSE schedule.endTime
                timeSlots == generateTimeSlots(startTime, endTime, schedule.slotDuration,
                                               schedule.bufferTime, schedule.breakTimes,
                                               requestedDate)
            IN IF timeSlots.threw
               THEN ErrResponse(500, "TypeError")
               ELSE Response(200, NoStr, timeSlots.slots, NoStr, startTime, endTime,
                             availability.timezone)

\* the handler leaving out the slots that hold an active booking
getSlotsHandler_HidesBooked(caller, providerId, date) ==
  IF providerId \notin Users THEN ErrResponse(404, "Provider not found")
  ELSE IF ~(caller = providerId \/ Role(caller) = "admin" \/ Role(caller) = "customer")
  THEN ErrResponse(403, "Access denied - invalid user role for viewing slots")
  ELSE IF date = InvalidDate
  THEN ErrResponse(400, "Invalid date format. Use YYYY-MM-DD.")
  ELSE IF AvailabilityFindOne(providerId) = {}
  THEN ErrResponse(404, "Provider has not set up availability schedule")
  ELSE LET resp == getSlotsFound(CHOOSE a \in AvailabilityFindOne(providerId) : TRUE, date)
           free(slot) == ~\E b \in bookings : /\ b.providerId = providerId
                                              /\ b.date = date
                                              /\ b.timeSlot = slot.startTime
                                              /\ b.status \in {"pending", "confirmed"}
       IN [resp EXCEPT !.slots = SelectSeq(@, free)]

\* the handler with the schedule lookup ahead of the date test
getSlotsHandler_LookupFirst(caller, providerId, date) ==
  IF providerId \notin Users THEN ErrResponse(404, "Provider not found")
  ELSE IF ~(caller = providerId \/ Role(caller) = "admin" \/ Role(caller) = "customer")
  THEN ErrResponse(403, "Access denied - invalid user role for viewing slots")
  ELSE IF AvailabilityFindOne(providerId) = {}
  THEN ErrResponse(404, "Provider has not set up availability schedule")
  ELSE IF date = InvalidDate
  THEN ErrResponse(400, "Invalid date format. Use YYYY-MM-DD.")
  ELSE getSlotsFound(CHOOSE a \in AvailabilityFindOne(providerId) : TRUE, date)

getSlotsHandler(caller, providerId, date) ==
  IF providerId \notin Users THEN ErrResponse(404, "Provider not found")
  ELSE IF ~(caller = providerId \/ Role(caller) = "admin" \/ Role(caller) = "customer")
  THEN ErrResponse(403, "Access denied - invalid user role for viewing slots")
  ELSE IF date = InvalidDate
  THEN ErrResponse(400, "Invalid date format. Use YYYY-MM-DD.")
  ELSE IF AvailabilityFindOne(providerId) = {}
  THEN ErrResponse(404, "Provider has not set up availability schedule")
  ELSE getSlotsFound(CHOOSE a \in AvailabilityFindOne(providerId) : TRUE, date)

----------------------------------------------------------------------------
(* getAvailableSlotsInternal of the booking controller *)

\* the callback of schedule.breakTimes?.some in the booking controller
isDuringBreakInternal(breakTime, currentTime, slotDuration) ==
  LET breakStart    == parseTimeStringInternal(breakTime.startTime)
      breakEnd      == parseTimeStringInternal(breakTime.endTime)
      slotStartHour == getHours(currentTime)
      slotEndHour   == getHours(currentTime) + (slotDuration \div 60)
  IN IF ~breakStart.ok THEN "throw"
     ELSE IF ~(slotStartHour >= breakStart.hours) THEN "false"
     ELSE IF ~breakEnd.ok THEN "throw"
     ELSE IF slotEndHour <= breakEnd.hours THEN "true"
     ELSE "false"

RECURSIVE SomeBreakInternal(_, _, _, _)
SomeBreakInternal(breakTimes, i, currentTime, slotDuration) ==
  IF i > Len(breakTimes) THEN "false"
  ELSE LET r == isDuringBreakInternal(breakTimes[i], currentTime, slotDuration)
       IN IF r = "false" THEN SomeBreakInternal(breakTimes, i + 1, currentTime, slotDuration)
          ELSE r

\* what one pass of the loop body pushes: the candidate, or nothing
LoopPushInternal(currentTime, schedule) ==
  IF SomeBreakInternal(schedule.breakTimes, 1, currentTime, schedule.slotDuration) = "false"
  THEN <<[startTime |-> formatTimeStringInternal(currentTime),
          endTime   |-> formatTimeStringInternal(currentTime + schedule.slotDuration),
          available |-> TRUE]>>
  ELSE <<>>

\* the while loop from currentTime on: whether a pass throws
RECURSIVE LoopThrowsInternal(_, _, _)
LoopThrowsInternal(currentTime, endDateTime, schedule) ==
  IF ~(currentTime < endDateTime) THEN FALSE
  ELSE \/ SomeBreakInternal(schedule.breakTimes, 1, currentTime, schedule.slotDuration)
            = "throw"
       \/ LoopThrowsInternal(currentTime + schedule.slotDuration + schedule.bufferTime,
                             endDateTime, schedule)

\* the while loop from currentTime on: the slots in the order they are pushed
RECURSIVE LoopSlotsInternal(_, _, _)
LoopSlotsInternal(currentTime, endDateTime, schedule) ==
  IF ~(currentTime < endDateTime) THEN <<>>
  ELSE LoopPushInternal(currentTime, schedule)
         \o LoopSlotsInternal(currentTime + schedule.slotDuration + schedule.bufferTime,
                              endDateTime, schedule)

GenLoopInternal(currentTime, endDateTime, schedule) ==
  IF LoopThrowsInternal(currentTime, endDateTime, schedule)
  THEN [threw |-> TRUE, slots |-> <<>>]
  ELSE [threw |-> FALSE, slots |-> LoopSlotsInternal(currentTime, endDateTime, schedule)]

\* every thrown error is caught and turned into the empty list
getAvailableSlotsInternal(providerId, requestedDate) ==
  IF AvailabilityFindOne(providerId) = {} THEN <<>>
  ELSE
    LET availability == CHOOSE a \in AvailabilityFindOne(providerId) : TRUE
        dayOfWeek == getDay(requestedDate)
        si == findSchedule(availability.schedules, dayOfWeek)
    IN IF si = 0 THEN <<>>
       ELSE
         LET schedule == availability.schedules[si]
             ei == findException(availability.exceptions, requestedDate)
             hasException == ei # 0
             exception == availability.exceptions[ei]
         IN IF hasException /\ ~exception.isAvailable THEN <<>>
            ELSE
              LET startTime == IF hasException /\ exception.customStartTime # NoTime
                               THEN exception.customStartTime ELSE schedule.startTime
                  endTime   == IF hasException /\ exception.customEndTime # NoTime
                               THEN exception.customEndTime ELSE schedule.endTime
                  start == parseTimeStringInternal(startTime)
                  end   == parseTimeStringInternal(endTime)
              IN IF ~start.ok \/ ~end.ok THEN <<>>
                 ELSE LET r == GenLoopInternal(setHours(requestedDate, start.hours, start.minutes),
                                               setHours(requestedDate, end.hours, end.minutes),
                                               schedule)
                      IN IF r.threw THEN <<>> ELSE r.slots

----------------------------------------------------------------------------
(* Request inputs the model draws from *)

ActiveStatuses == {"pending", "confirmed"}

\* validStatuses of the PATCH and PUT handlers, the enum of bookingSchema.status
ValidStatuses == {"pending", "confirmed", "completed", "cancelled"}

\* a 12-hour time string without and with a leading zero: "9:00 AM", "09:00 AM"
TimeStr(h, m, per) == NumStr(h) \o <<":">> \o PadStart2(m) \o <<" ", per, "M">>

TimeStr0(h, m, per) == PadStart2(h) \o <<":">> \o PadStart2(m) \o <<" ", per, "M">>

\* midnight of the n-th day after the epoch; day 4 is Monday 1970-01-05
DayStart(n) == n * MinutesPerDay

Monday == DayStart(4)

Tuesday == DayStart(5)

\* the values new Date() takes when a request arrives: Sunday noon, Monday 10:00
Now0 == DayStart(3) + 720

RequestTimes == {Now0, Monday + 600}

\* an absent date in a request body
NoDate == 0

Rule(dayOfWeek, isEnabled, startTime, endTime, slotDuration, bufferTime, breakTimes) ==
  [dayOfWeek |-> dayOfWeek, isEnabled |-> isEnabled, startTime |-> startTime,
   endTime |-> endTime, slotDuration |-> slotDuration, bufferTime |-> bufferTime,
   breakTimes |-> breakTimes]

Break(startTime, endTime) == [startTime |-> startTime, endTime |-> endTime]

Exception(date, isAvailable, customStartTime, customEndTime, reason) ==
  [date |-> date, isAvailable |-> isAvailable, customStartTime |-> customStartTime,
   customEndTime |-> customEndTime, reason |-> reason]

ScheduleBody(schedules, exceptions, timezone, advanceBookingDays) ==
  [schedules |-> schedules, exceptions |-> exceptions, timezone |-> timezone,
   advanceBookingDays |-> advanceBookingDays]

\* bodies of POST /availability/provider/:providerId
ScheduleBodies ==
  { ScheduleBody(<<Rule(1, TRUE, TimeStr0(9, 0, "A"), TimeStr0(11, 30, "A"), 60, 0, <<>>)>>,
                 <<>>, NoStr, 0),
    ScheduleBody(<<>>, <<>>, NoStr, 0) }

CreateBody(serviceId, customerId, providerId, date, timeSlot) ==
  [serviceId |-> serviceId, customerId |-> customerId, providerId |-> providerId,
   date |-> date, timeSlot |-> timeSlot]

\* the callers the model tries: a customer, a provider and an admin; each is the
\* owner of some documents and a stranger to the others
Callers == {"c1", "p1", "adm"}

\* bodies of POST /bookings
CreateBodies ==
  { CreateBody("s1", "c1", "p1", Monday, TimeStr(9, 0, "A")),
    CreateBody("s2", "c2", "p2", Monday, TimeStr(9, 0, "A")),
    CreateBody("s1", "c1", "p2", Monday, TimeStr(9, 0, "A")),
    CreateBody("s1", "c1", "p1", Monday, NoTime) }

\* bodies of the racing POST /bookings requests
RaceBodies ==
  { CreateBody("s1", "c1", "p1", Monday, TimeStr(9, 0, "A")),
    CreateBody("s1", "c2", "p1", Monday, TimeStr(9, 0, "A")),
    CreateBody("s1", "c2", "p1", Monday, TimeStr(10, 0, "A")),
    CreateBody("s2", "c2", "p2", Monday, TimeStr(9, 0, "A")),
    CreateBody("s1", "c1", "p1", Tuesday, TimeStr(9, 0, "A")) }

\* bodies of PATCH and PUT /bookings/:bookingId after the protected fields are deleted
Updates(status, date, timeSlot) == [status |-> status, date |-> date, timeSlot |-> timeSlot]

UpdateBodies ==
  { Updates(st, NoDate, NoTime) : st \in ValidStatuses \cup {"archived"} }
    \cup { Updates(NoStr, NoDate, TimeStr(10, 0, "A")) }

----------------------------------------------------------------------------
(* POST /bookings: the handler between two awaits is one step *)

\* bound on the bookings ever created in one run
MaxBookings == 2

\* the requests in flight: one beside the other handlers, two racing each other
ReqIds == {1}

RaceReqIds == {1, 2}

IdleReq ==
  [pc |-> "idle", serviceId |-> NoStr, customerId |-> NoStr, providerId |-> NoStr,
   date |-> NoDate, timeSlot |-> NoTime, at |-> 0, status |-> 0, err |-> NoStr]

Finish(q, status, err) == [q EXCEPT !.pc = "done", !.status = status, !.err = err]

\* the filter without its status clause
ConflictQuery_AnyStatus(providerId, bookingDate, timeSlot) ==
  {b \in bookings : /\ b.providerId = providerId
                    /\ b.date = bookingDate
                    /\ b.timeSlot = timeSlot}

\* the filter of Booking.findOne in the conflict step
ConflictQuery(providerId, bookingDate, timeSlot) ==
  {b \in bookings : /\ b.providerId = providerId
                    /\ b.date = bookingDate
                    /\ b.timeSlot = timeSlot
                    /\ b.status \in ActiveStatuses}

\* availableSlots.some(slot => slot.startTime === timeSlot && slot.available === true)
requestedSlotExists(availableSlots, timeSlot) ==
  \E i \in 1..Len(availableSlots) :
    availableSlots[i].startTime = timeSlot /\ availableSlots[i].available = TRUE

\* requests that may still insert a booking
InFlight == Cardinality({r \in DOMAIN reqs : reqs[r].pc \notin {"idle", "done"}})

\* the handler with the required-fields test ahead of the authorization test
createBookingStart_FieldsFirst(caller, body, now) ==
  LET q == [IdleReq EXCEPT !.serviceId = body.serviceId, !.customerId = body.customerId,
                           !.providerId = body.providerId, !.date = body.date,
                           !.timeSlot = body.timeSlot, !.at = now]
  IN IF body.serviceId = NoStr \/ body.customerId = NoStr \/ body.providerId = NoStr
             \/ body.date = NoDate \/ body.timeSlot = NoTime
     THEN Finish(q, 400, "serviceId, customerId, providerId, date, and timeSlot are required")
     ELSE IF caller # body.customerId /\ Role(caller) # "admin"
     THEN Finish(q, 403, "You can only book as a customer")
     ELSE IF body.serviceId \notin Services
     THEN Finish(q, 400, "Service not found")
     ELSE IF ServiceProvider(body.serviceId) # body.providerId
     THEN Finish(q, 400, "Service does not belong to this provider")
     ELSE IF body.date # InvalidDate /\ body.date <= now
     THEN Finish(q, 400, "Booking date must be in the future")
     ELSE IF ~TimeRegexTest(body.timeSlot)
     THEN Finish(q, 400, "Invalid timeSlot format")
     ELSE IF AvailabilityFindOne(body.providerId) = {}
     THEN Finish(q, 400, "Provider has no availability schedule configured")
     ELSE IF body.date = InvalidDate
     THEN Finish(q, 500, "Failed to create booking")
     ELSE [q EXCEPT !.pc = "slots"]

\* lines 36-95: authorization, required fields, service, date, format, schedule;
\* now is the value of new Date() at line 71
createBookingStart(caller, body, now) ==
  LET q == [IdleReq EXCEPT !.serviceId = body.serviceId, !.customerId = body.customerId,
                           !.providerId = body.providerId, !.date = body.date,
                           !.timeSlot = body.timeSlot, !.at = now]
  IN IF caller # body.customerId /\ Role(caller) # "admin"
     THEN Finish(q, 403, "You can only book as a customer")
     ELSE IF body.serviceId = NoStr \/ body.customerId = NoStr \/ body.providerId = NoStr
             \/ body.date = NoDate \/ body.timeSlot = NoTime
     THEN Finish(q, 400, "serviceId, customerId, providerId, date, and timeSlot are required")
     ELSE IF body.serviceId \notin Services
     THEN Finish(q, 400, "Service not found")
     ELSE IF ServiceProvider(body.serviceId) # body.providerId
     THEN Finish(q, 400, "Service does not belong to this provider")
     ELSE IF body.date # InvalidDate /\ body.date <= now
     THEN Finish(q, 400, "Booking date must be in the future")
     ELSE IF ~TimeRegexTest(body.timeSlot)
     THEN Finish(q, 400, "Invalid timeSlot format")
     ELSE IF AvailabilityFindOne(body.providerId) = {}
     THEN Finish(q, 400, "Provider has no availability schedule configured")
     ELSE IF body.date = InvalidDate
     THEN Finish(q, 500, "Failed to create booking")
     ELSE [q EXCEPT !.pc = "slots"]

CreateStart(r, callers, bodies, times) ==
  /\ reqs[r].pc = "idle"
  /\ nextId + InFlight <= MaxBookings
  /\ \E caller \in callers, body \in bodies, now \in times :
       reqs' = [reqs EXCEPT ![r] = createBookingStart(caller, body, now)]
  /\ UNCHANGED <<availabilities, bookings, nextId, slotsResp, timeCall, loop, registry>>

CreateBookingStart(r) == CreateStart(r, Callers, CreateBodies, RequestTimes)

\* the two customers who race
RaceCallers == {"c1", "c2"}

RaceBookingStart(r) == CreateStart(r, RaceCallers, RaceBodies, RequestTimes)

\* lines 98-113: slot legality against getAvailableSlotsInternal
CreateBookingSlots(r) ==
  /\ reqs[r].pc = "slots"
  /\ LET q == reqs[r]
         availableSlots == getAvailableSlotsInternal(q.providerId, q.date)
     IN reqs' = [reqs EXCEPT ![r] =
                   IF ~requestedSlotExists(availableSlots, q.timeSlot)
                   THEN Finish(q, 400, "Selected time slot is not available")
                   ELSE [q EXCEPT !.pc = "conflict"]]
  /\ UNCHANGED <<availabilities, bookings, nextId, slotsResp, timeCall, loop, registry>>

\* lines 118-129: the conflict read
CreateBookingConflict(r) ==
  /\ reqs[r].pc = "conflict"
  /\ LET q == reqs[r]
     IN reqs' = [reqs EXCEPT ![r] =
                   IF ConflictQuery(q.providerId, q.date, q.timeSlot) # {}
                   THEN Finish(q, 409, "This provider is already booked for the selected time slot")
                   ELSE [q EXCEPT !.pc = "create"]]
  /\ UNCHANGED <<availabilities, bookings, nextId, slotsResp, timeCall, loop, registry>>

\* the stored document with the status of an already confirmed booking
NewBooking_Confirmed(id, q) ==
  [id |-> id, serviceId |-> q.serviceId, customerId |-> q.customerId,
   providerId |-> q.providerId, date |-> q.date, timeSlot |-> q.timeSlot,
   status |-> "confirmed"]

\* the document Booking.create stores
NewBooking(id, q) ==
  [id |-> id, serviceId |-> q.serviceId, customerId |-> q.customerId,
   providerId |-> q.providerId, date |-> q.date, timeSlot |-> q.timeSlot,
   status |-> "pending"]

\* lines 134-146: the insert; the collection's indexes are not unique
CreateBookingCreate(r) ==
  /\ reqs[r].pc = "create"
  /\ bookings' = bookings \cup {NewBooking(nextId, reqs[r])}
  /\ nextId' = nextId + 1
  /\ reqs' = [reqs EXCEPT ![r] = Finish(reqs[r], 201, NoStr)]
  /\ UNCHANGED <<availabilities, slotsResp, timeCall, loop, registry>>

\* the response has been delivered; the request slot is free again
CreateBookingReturn(r) ==
  /\ reqs[r].pc = "done"
  /\ reqs' = [reqs EXCEPT ![r] = IdleReq]
  /\ UNCHANGED <<availabilities, bookings, nextId, slotsResp, timeCall, loop, registry>>

----------------------------------------------------------------------------
(* PATCH, PUT and DELETE /bookings/:bookingId *)

BookingIds == 1..MaxBookings

\* $set of the fields present in the update
applyUpdates(b, updates) ==
  [b EXCEPT !.status   = IF updates.status # NoStr THEN updates.status ELSE @,
            !.date     = IF updates.date # NoDate THEN updates.date ELSE @,
            !.timeSlot = IF updates.timeSlot # NoTime THEN updates.timeSlot ELSE @]

\* the handler with completed and cancelled bookings locked against a new status
updateBooking_TerminalLocked(caller, bookingId, updates) ==
  LET found == {b \in bookings : b.id = bookingId}
  IN IF found = {} THEN bookings
     ELSE
       LET existing   == CHOOSE b \in found : TRUE
           isCustomer == caller = existing.customerId
           isProvider == caller = existing.providerId
       IN IF ~isCustomer /\ ~isProvider /\ Role(caller) # "admin" THEN bookings
          ELSE IF updates.status # NoStr /\ updates.status \notin ValidStatuses THEN bookings
          ELSE IF updates.status # NoStr /\ existing.status \in {"completed", "cancelled"}
          THEN bookings
          ELSE IF updates.timeSlot # NoTime /\ ~TimeRegexTest(updates.timeSlot) THEN bookings
          ELSE (bookings \ {existing}) \cup {applyUpdates(existing, updates)}

\* the bookings collection after PATCH (and PUT, whose handler is the same text)
updateBooking(caller, bookingId, updates) ==
  LET found == {b \in bookings : b.id = bookingId}
  IN IF found = {} THEN bookings
     ELSE
       LET existing   == CHOOSE b \in found : TRUE
           isCustomer == caller = existing.customerId
           isProvider == caller = existing.providerId
       IN IF ~isCustomer /\ ~isProvider /\ Role(caller) # "admin" THEN bookings
          ELSE IF updates.status # NoStr /\ updates.status \notin ValidStatuses THEN bookings
          ELSE IF updates.timeSlot # NoTime /\ ~TimeRegexTest(updates.timeSlot) THEN bookings
          ELSE (bookings \ {existing}) \cup {applyUpdates(existing, updates)}

PatchBooking ==
  /\ \E caller \in Callers, bookingId \in BookingIds, updates \in UpdateBodies :
       bookings' = updateBooking(caller, bookingId, updates)
  /\ UNCHANGED <<availabilities, nextId, reqs, slotsResp, timeCall, loop, registry>>

PutBooking ==
  /\ \E caller \in Callers, bookingId \in BookingIds, updates \in UpdateBodies :
       bookings' = updateBooking(caller, bookingId, updates)
  /\ UNCHANGED <<availabilities, nextId, reqs, slotsResp, timeCall, loop, registry>>

\* req.user._id is the ObjectId verifyToken read from the users collection;
\* !== against the string booking.customerId.toString() never finds them equal
ObjectIdEqualsString(userId, str) == FALSE

deleteBooking(caller, bookingId) ==
  LET found == {b \in bookings : b.id = bookingId}
  IN IF found = {} THEN bookings
     ELSE
       LET booking == CHOOSE b \in found : TRUE
       IN IF /\ Role(caller) # "admin"
             /\ ~ObjectIdEqualsString(caller, booking.customerId)
             /\ ~ObjectIdEqualsString(caller, booking.providerId)
          THEN bookings
          ELSE bookings \ {booking}

DeleteBooking ==
  /\ \E caller \in Callers, bookingId \in BookingIds :
       bookings' = deleteBooking(caller, bookingId)
  /\ UNCHANGED <<availabilities, nextId, reqs, slotsResp, timeCall, loop, registry>>

----------------------------------------------------------------------------
(* POST, PATCH and DELETE /availability/provider/:providerId *)

\* the validators of ScheduleSchema, BreakTimeSchema, ExceptionSchema and availabilitySchema
SchemaValid(doc) ==
  /\ Len(doc.schedules) > 0
  /\ \A i \in 1..Len(doc.schedules) :
       LET sc == doc.schedules[i]
       IN /\ sc.dayOfWeek \in 0..6
          /\ sc.startTime # NoTime /\ sc.endTime # NoTime
          /\ sc.slotDuration \in 15..480
          /\ sc.bufferTime \in 0..120
          /\ \A j \in 1..Len(sc.breakTimes) :
               sc.breakTimes[j].startTime # NoTime /\ sc.breakTimes[j].endTime # NoTime
  /\ \A i \in 1..Len(doc.exceptions) :
       LET e == doc.exceptions[i]
       IN /\ e.customStartTime = NoTime \/ TimeRegexTest(e.customStartTime)
          /\ e.customEndTime = NoTime \/ TimeRegexTest(e.customEndTime)
  /\ doc.advanceBookingDays \in 0..365

\* the availabilityData object of the POST handler (|| replaces falsy values)
availabilityData(providerId, body) ==
  [providerId |-> providerId,
   schedules  |-> body.schedules,
   exceptions |-> body.exceptions,
   timezone   |-> IF body.timezone # NoStr THEN body.timezone ELSE "Asia/Bahrain",
   advanceBookingDays |-> IF body.advanceBookingDays # 0 THEN body.advanceBookingDays ELSE 30]

\* the handler with an insert in place of the upsert
setSchedule_Insert(caller, providerId, body) ==
  IF providerId \notin Users THEN availabilities
  ELSE IF Role(caller) # "admin" /\ caller # providerId THEN availabilities
  ELSE IF Role(providerId) # "provider" THEN availabilities
  ELSE IF Len(body.schedules) = 0 THEN availabilities
  ELSE IF \E i \in 1..Len(body.schedules) :
            \/ body.schedules[i].startTime = NoTime
            \/ body.schedules[i].endTime = NoTime
            \/ ~TimeRegexTest(body.schedules[i].startTime)
            \/ ~TimeRegexTest(body.schedules[i].endTime)
  THEN availabilities
  ELSE LET data == availabilityData(providerId, body)
       IN IF ~SchemaValid(data) THEN availabilities
          ELSE availabilities \cup {data}

\* the availabilities collection after POST
setSchedule(caller, providerId, body) ==
  IF providerId \notin Users THEN availabilities
  ELSE IF Role(caller) # "admin" /\ caller # providerId THEN availabilities
  ELSE IF Role(providerId) # "provider" THEN availabilities
  ELSE IF Len(body.schedules) = 0 THEN availabilities
  ELSE IF \E i \in 1..Len(body.schedules) :
            \/ body.schedules[i].startTime = NoTime
            \/ body.schedules[i].endTime = NoTime
            \/ ~TimeRegexTest(body.schedules[i].startTime)
            \/ ~TimeRegexTest(body.schedules[i].endTime)
  THEN availabilities
  ELSE LET data == availabilityData(providerId, body)
       IN IF ~SchemaValid(data) THEN availabilities
          ELSE {a \in availabilities : a.providerId # providerId} \cup {data}

\* the providers whose schedule the model's requests address
ScheduleTargets == {"p1", "p2"}

SetSchedule ==
  /\ \E caller \in Callers, providerId \in ScheduleTargets, body \in ScheduleBodies :
       availabilities' = setSchedule(caller, providerId, body)
  /\ UNCHANGED <<bookings, nextId, reqs, slotsResp, timeCall, loop, registry>>

\* a PATCH body: has names the fields that are not undefined
PatchBody(has, schedules, exceptions, timezone, advanceBookingDays) ==
  [has |-> has, schedules |-> schedules, exceptions |-> exceptions,
   timezone |-> timezone, advanceBookingDays |-> advanceBookingDays]

PatchBodies ==
  { PatchBody({"exceptions"}, <<>>,
              <<Exception(Monday, FALSE, NoTime, NoTime, "Holiday")>>, NoStr, 0),
    PatchBody({"schedules"}, <<>>, <<>>, NoStr, 0),
    PatchBody({"schedules"},
              <<Rule(2, TRUE, TimeStr0(9, 0, "A"), TimeStr0(11, 30, "A"), 60, 0, <<>>)>>,
              <<>>, NoStr, 0),
    PatchBody({"timezone"}, <<>>, <<>>, "UTC", 0),
    PatchBody({"advanceBookingDays"}, <<>>, <<>>, NoStr, 7),
    PatchBody({"advanceBookingDays"}, <<>>, <<>>, NoStr, 366) }

\* the update with the defaults of POST for the fields that are absent
applyPatch_Defaults(doc, body) ==
  [doc EXCEPT
     !.schedules  = IF "schedules" \in body.has THEN body.schedules ELSE @,
     !.exceptions = IF "exceptions" \in body.has THEN body.exceptions ELSE <<>>,
     !.timezone   = IF "timezone" \in body.has THEN body.timezone ELSE "Asia/Bahrain",
     !.advanceBookingDays =
        IF "advanceBookingDays" \in body.has THEN body.advanceBookingDays ELSE 30]

\* the document after $set of the updates object
applyPatch(doc, body) ==
  [doc EXCEPT
     !.schedules  = IF "schedules" \in body.has THEN body.schedules ELSE @,
     !.exceptions = IF "exceptions" \in body.has THEN body.exceptions ELSE @,
     !.timezone   = IF "timezone" \in body.has THEN body.timezone ELSE @,
     !.advanceBookingDays =
        IF "advanceBookingDays" \in body.has THEN body.advanceBookingDays ELSE @]

\* the handler without the test of the caller
patchSchedule_AnyCaller(caller, providerId, body) ==
  IF providerId \notin Users THEN availabilities
  ELSE IF AvailabilityFindOne(providerId) = {} THEN availabilities
  ELSE IF "schedules" \in body.has /\ Len(body.schedules) = 0 THEN availabilities
  ELSE LET existing == CHOOSE a \in AvailabilityFindOne(providerId) : TRUE
           updated  == applyPatch(existing, body)
       IN IF ~SchemaValid(updated) THEN availabilities
          ELSE (availabilities \ {existing}) \cup {updated}

\* the availabilities collection after PATCH; an empty array is truthy in
\* JavaScript, so it reaches the length test, and the schema validator after it
patchSchedule(caller, providerId, body) ==
  IF providerId \notin Users THEN availabilities
  ELSE IF Role(caller) # "admin" /\ caller # providerId THEN availabilities
  ELSE IF AvailabilityFindOne(providerId) = {} THEN availabilities
  ELSE IF "schedules" \in body.has /\ Len(body.schedules) = 0 THEN availabilities
  ELSE LET existing == CHOOSE a \in AvailabilityFindOne(providerId) : TRUE
           updated  == applyPatch(existing, body)
       IN IF ~SchemaValid(updated) THEN availabilities
          ELSE (availabilities \ {existing}) \cup {updated}

PatchSchedule ==
  /\ \E caller \in Callers, providerId \in ScheduleTargets, body \in PatchBodies :
       availabilities' = patchSchedule(caller, providerId, body)
  /\ UNCHANGED <<bookings, nextId, reqs, slotsResp, timeCall, loop, registry>>

\* the availabilities collection after DELETE
deleteSchedule(caller, providerId) ==
  IF providerId \notin Users THEN availabilities
  ELSE IF Role(caller) # "admin" /\ caller # providerId THEN availabilities
  ELSE availabilities \ AvailabilityFindOne(providerId)

\* the handler removing the provider's bookings with the schedule
DeleteSchedule_Cascade ==
  /\ \E caller \in Callers, providerId \in ScheduleTargets :
       /\ availabilities' = deleteSchedule(caller, providerId)
       /\ bookings' = IF availabilities' # availabilities
                      THEN {b \in bookings : b.providerId # providerId}
                      ELSE bookings
  /\ UNCHANGED <<nextId, reqs, slotsResp, timeCall, loop, registry>>

DeleteSchedule ==
  /\ \E caller \in Callers, providerId \in ScheduleTargets :
       availabilities' = deleteSchedule(caller, providerId)
  /\ UNCHANGED <<bookings, nextId, reqs, slotsResp, timeCall, loop, registry>>

\* the status of the response of POST
setScheduleStatus(caller, providerId, body) ==
  IF providerId \notin Users THEN 404
  ELSE IF Role(caller) # "admin" /\ caller # providerId THEN 403
  ELSE IF Role(providerId) # "provider" THEN 403
  ELSE IF Len(body.schedules) = 0 THEN 400
  ELSE IF \E i \in 1..Len(body.schedules) :
            \/ body.schedules[i].startTime = NoTime
            \/ body.schedules[i].endTime = NoTime
            \/ ~TimeRegexTest(body.schedules[i].startTime)
            \/ ~TimeRegexTest(body.schedules[i].endTime)
  THEN 400
  ELSE IF ~SchemaValid(availabilityData(providerId, body)) THEN 500
  ELSE 201

\* the status of the response of PATCH
patchScheduleStatus(caller, providerId, body) ==
  IF providerId \notin Users THEN 404
  ELSE IF Role(caller) # "admin" /\ caller # providerId THEN 403
  ELSE IF AvailabilityFindOne(providerId) = {} THEN 404
  ELSE IF "schedules" \in body.has /\ Len(body.schedules) = 0 THEN 400
  ELSE IF ~SchemaValid(applyPatch(CHOOSE a \in AvailabilityFindOne(providerId) : TRUE, body))
  THEN 500
  ELSE 200

\* the status of the response of DELETE
deleteScheduleStatus(caller, providerId) ==
  IF providerId \notin Users THEN 404
  ELSE IF Role(caller) # "admin" /\ caller # providerId THEN 403
  ELSE IF AvailabilityFindOne(providerId) = {} THEN 404
  ELSE 200

----------------------------------------------------------------------------
(* The slots request and the specifications *)

NoCall ==
  [called |-> FALSE, caller |-> NoStr, providerId |-> NoStr, date |-> NoDate,
   resp |-> ErrResponse(0, NoStr)]

\* the time-string helpers have not been called yet
NoTimeCall ==
  [called |-> FALSE, helper |-> NoStr, input |-> NoTime, ok |-> FALSE, hours |-> 0,
   minutes |-> 0, output |-> NoTime]

\* no slot generation is running
NoLoop ==
  [pc |-> "idle", controller |-> NoStr, start |-> 0, currentTime |-> 0, endDateTime |-> 0,
   slotDuration |-> 0, bufferTime |-> 0, passes |-> 0]

\* the sockets of the chat relay, none of them opened yet
SocketIds == {"k1", "k2", "k3", "k4"}

\* the two Maps of the online-user registry, both empty, and the sockets
NoRegistry ==
  [onlineUsers |-> {}, userSockets |-> {},
   sockets |-> [s \in SocketIds |-> [state |-> "new", user |-> NoStr]]]

GetSlotsCall(callers, providers, dates) ==
  /\ \E caller \in callers, providerId \in providers, date \in dates :
       slotsResp' = [called |-> TRUE, caller |-> caller, providerId |-> providerId,
                     date |-> date, resp |-> getSlotsHandler(caller, providerId, date)]
  /\ UNCHANGED <<availabilities, bookings, nextId, reqs, timeCall, loop, registry>>

\* who asks for slots, of which provider, for which dates
SlotsCallers == {"c1", "p2"}

SlotsProviders == {"p1"}

SlotsDates == {InvalidDate, Monday}

GetSlots == GetSlotsCall(SlotsCallers, SlotsProviders, SlotsDates)

----------------------------------------------------------------------------
(* Spec: every booking handler, with one POST /bookings in flight between   *)
(* the other requests, and schedules set and deleted                        *)

Init ==
  /\ availabilities = {}
  /\ bookings = {}
  /\ nextId = 1
  /\ reqs = [r \in ReqIds |-> IdleReq]
  /\ slotsResp = NoCall
  /\ timeCall = NoTimeCall
  /\ loop = NoLoop
  /\ registry = NoRegistry

Next ==
  \/ SetSchedule
  \/ DeleteSchedule
  \/ \E r \in ReqIds : CreateBookingStart(r)
  \/ \E r \in ReqIds : CreateBookingSlots(r)
  \/ \E r \in ReqIds : CreateBookingConflict(r)
  \/ \E r \in ReqIds : CreateBookingCreate(r)
  \/ \E r \in ReqIds : CreateBookingReturn(r)
  \/ PatchBooking
  \/ PutBooking
  \/ DeleteBooking

Spec == Init /\ [][Next]_vars

----------------------------------------------------------------------------
(* SpecRace: POST /bookings requests racing each other against schedules    *)
(* that are already stored                                                  *)

StoredSchedule(providerId) ==
  availabilityData(providerId,
    ScheduleBody(<<Rule(1, TRUE, TimeStr0(9, 0, "A"), TimeStr0(11, 30, "A"), 60, 0, <<>>)>>,
                 <<>>, NoStr, 0))

InitRace ==
  /\ availabilities = {StoredSchedule("p1"), StoredSchedule("p2")}
  /\ bookings = {}
  /\ nextId = 1
  /\ reqs = [r \in RaceReqIds |-> IdleReq]
  /\ slotsResp = NoCall
  /\ timeCall = NoTimeCall
  /\ loop = NoLoop
  /\ registry = NoRegistry

NextRace ==
  \/ \E r \in RaceReqIds : RaceBookingStart(r)
  \/ \E r \in RaceReqIds : CreateBookingSlots(r)
  \/ \E r \in RaceReqIds : CreateBookingConflict(r)
  \/ \E r \in RaceReqIds : CreateBookingCreate(r)
  \/ \E r \in RaceReqIds : CreateBookingReturn(r)

SpecRace == InitRace /\ [][NextRace]_vars

----------------------------------------------------------------------------
(* SpecSlots: the slots request and the slot-legality step of POST          *)
(* /bookings against one stored schedule, drawn from a family of weekly     *)
(* rules and a family of date exceptions                                    *)

\* [start, end] windows: the scenario's, ones that are no multiple of the step,
\* one around noon, an evening one, and one that ends before it starts
SlotWindows ==
  { <<TimeStr0(9, 0, "A"), TimeStr0(5, 0, "P")>>,
    <<TimeStr0(9, 0, "A"), TimeStr(12, 45, "P")>>,
    <<TimeStr(9, 30, "A"), TimeStr0(5, 0, "P")>>,
    <<TimeStr(9, 30, "A"), TimeStr(12, 45, "P")>>,
    <<TimeStr(11, 30, "A"), TimeStr(1, 30, "P")>>,
    <<TimeStr0(8, 0, "P"), TimeStr(11, 30, "P")>>,
    <<TimeStr0(8, 0, "P"), TimeStr0(5, 0, "P")>> }

SlotDurations == {15, 45, 60, 90, 480}

SlotBuffers == {0, 10, 120}

SlotBreaks ==
  { <<>>,
    <<Break(TimeStr(12, 0, "P"), TimeStr0(1, 0, "P"))>>,
    <<Break(TimeStr(12, 30, "P"), TimeStr(1, 0, "P"))>>,
    <<Break(TimeStr(10, 15, "A"), TimeStr(10, 45, "A")),
      Break(TimeStr(12, 0, "P"), TimeStr0(1, 0, "P"))>> }

\* bound on the candidates the generator walks through in one call
MaxCandidates == 12

\* the number of times the while loop runs for a window and a step
Candidates(w, dur, buf) ==
  LET start == parseTimeString(w[1])
      end   == parseTimeString(w[2])
      from  == (start.hours * 60) + start.minutes
      to    == (end.hours * 60) + end.minutes
  IN IF to <= from THEN 0 ELSE ((to - from - 1) \div (dur + buf)) + 1

\* enabled Monday rules over the windows, durations, buffers and break lists
GeneratorRules ==
  { Rule(1, TRUE, w[1], w[2], dur, buf, br) :
      w \in SlotWindows, dur \in SlotDurations, buf \in SlotBuffers, br \in SlotBreaks }

\* a Monday or a Tuesday rule, enabled or not, over two windows
StructureRules ==
  { Rule(dow, enabled, w[1], w[2], w[3], w[4], w[5]) :
      dow \in 1..2, enabled \in BOOLEAN,
      w \in { <<TimeStr0(9, 0, "A"), TimeStr0(5, 0, "P"), 60, 0, <<>> >>,
              <<TimeStr(9, 30, "A"), TimeStr(12, 45, "P"), 45, 10,
                <<Break(TimeStr(12, 0, "P"), TimeStr0(1, 0, "P"))>> >> } }

SlotExceptions ==
  { <<>>,
    <<Exception(Monday, FALSE, NoTime, NoTime, "Holiday")>>,
    <<Exception(Monday, FALSE, NoTime, NoTime, NoStr)>>,
    <<Exception(Monday, TRUE, TimeStr(10, 0, "A"), TimeStr0(2, 0, "P"), "Short day")>>,
    <<Exception(Monday, TRUE, TimeStr(10, 0, "A"), NoTime, NoStr)>>,
    <<Exception(Tuesday, FALSE, NoTime, NoTime, "Holiday"),
      Exception(Monday, TRUE, NoTime, TimeStr0(2, 0, "P"), NoStr)>> }

\* schedules that allow booking one day ahead only
HorizonSchedules ==
  { availabilityData("p1", ScheduleBody(<<rule>>, <<>>, NoStr, 1)) :
      rule \in {r \in StructureRules : r.isEnabled} }

SlotSchedules ==
  { availabilityData("p1", ScheduleBody(<<rule>>, <<>>, NoStr, 0)) :
      rule \in { r \in GeneratorRules :
                   Candidates(<<r.startTime, r.endTime>>, r.slotDuration, r.bufferTime)
                     <= MaxCandidates } }
    \cup
  { availabilityData("p1", ScheduleBody(<<rule>>, exc, NoStr, 0)) :
      rule \in StructureRules, exc \in SlotExceptions }
    \cup HorizonSchedules

SlotTimes ==
  { TimeStr(9, 0, "A"), TimeStr0(9, 0, "A"), TimeStr(11, 30, "A"), TimeStr(12, 0, "P"),
    TimeStr(1, 0, "P"), TimeStr(4, 30, "P"), TimeStr(11, 0, "P") }

SlotCreateBodies ==
  { CreateBody("s1", "c1", "p1", date, timeSlot) :
      date \in {Monday, Tuesday}, timeSlot \in SlotTimes }

InitSlots ==
  /\ availabilities \in {{doc} : doc \in SlotSchedules}
  /\ bookings = {}
  /\ nextId = 1
  /\ reqs = [r \in ReqIds |-> IdleReq]
  /\ slotsResp = NoCall
  /\ timeCall = NoTimeCall
  /\ loop = NoLoop
  /\ registry = NoRegistry

\* the customer who asks and books, the dates asked for, the request time
SlotCustomers == {"c1"}

SlotDates == {InvalidDate, Monday, Tuesday}

SlotRequestTimes == {Now0}

SlotsGetSlots == GetSlotsCall(SlotCustomers, SlotsProviders, SlotDates)

SlotsCreateStart == CreateStart(1, SlotCustomers, SlotCreateBodies, SlotRequestTimes)

NextSlots ==
  \/ SlotsGetSlots
  \/ SlotsCreateStart
  \/ CreateBookingSlots(1)

SpecSlots == InitSlots /\ [][NextSlots]_vars

----------------------------------------------------------------------------
(* Bookings: at most one active booking per slot, the race, the conflict step *)

\* two stored bookings for the same (providerId, date, timeSlot)
SameSlot(b1, b2) ==
  b1.providerId = b2.providerId /\ b1.date = b2.date /\ b1.timeSlot = b2.timeSlot

\* C1: in every reachable state, for every (providerId, date, timeSlot), at most
\* one stored booking has status pending or confirmed
C1_AtMostOneActive ==
  \A b1 \in bookings, b2 \in bookings :
    (SameSlot(b1, b2) /\ b1.status \in {"pending", "confirmed"}
                      /\ b2.status \in {"pending", "confirmed"}) => b1.id = b2.id

\* C2: two POST /bookings requests for the same (providerId, date, timeSlot) that
\* both passed every validation step never both return 201: one of them is the
\* Conflict
C2_ExactlyOneSucceeds ==
  \A r1 \in DOMAIN reqs, r2 \in DOMAIN reqs :
    (/\ r1 # r2
     /\ reqs[r1].pc = "done" /\ reqs[r2].pc = "done"
     /\ SameSlot(reqs[r1], reqs[r2])
     /\ reqs[r1].status \in {201, 409} /\ reqs[r2].status \in {201, 409})
    => ~(reqs[r1].status = 201 /\ reqs[r2].status = 201)

\* a stored booking in status pending or confirmed for the request's slot
ActiveBookingFor(q) ==
  \E b \in bookings : SameSlot(b, q) /\ b.status \in {"pending", "confirmed"}

\* C10: the conflict step answers 409 Conflict if and only if a stored booking
\* with the request's providerId, date and timeSlot is pending or confirmed;
\* completed, cancelled and deleted bookings do not block the request
C10_ConflictIffActive ==
  [][\A r \in DOMAIN reqs :
       (reqs[r].pc = "conflict" /\ reqs'[r].pc # "conflict")
       => /\ (reqs'[r].status = 409 /\ reqs'[r].pc = "done") <=> ActiveBookingFor(reqs[r])
          /\ ~ActiveBookingFor(reqs[r]) => reqs'[r].pc = "create"]_vars

\* a request has passed the conflict step although a cancelled or completed
\* booking for its slot is stored
C10_PassedBesideInactive ==
  \E r \in DOMAIN reqs :
    /\ reqs[r].pc = "create"
    /\ \E b \in bookings : SameSlot(b, reqs[r]) /\ b.status \in {"cancelled", "completed"}

----------------------------------------------------------------------------
(* The slots request: what its answer is measured against *)

\* minutes after midnight of a 12-hour time string
MinuteOfDay(t) == LET p == parseTimeString(t) IN (p.hours * 60) + p.minutes

\* the stored schedule of the provider the slots request named
AnsweredDoc == CHOOSE a \in availabilities : a.providerId = slotsResp.providerId

\* the slots request was made for a valid date of a provider with a schedule
SlotsAsked ==
  /\ slotsResp.called
  /\ slotsResp.date # InvalidDate
  /\ \E a \in availabilities : a.providerId = slotsResp.providerId

\* ... and was answered with status 200
SlotsAnswered == SlotsAsked /\ slotsResp.resp.status = 200

\* index of the date's exception, of the weekday's rule, and of the weekday's
\* enabled rule; 0 when there is none
ExceptionIndex(doc, date) ==
  IF \E i \in 1..Len(doc.exceptions) : doc.exceptions[i].date \div MinutesPerDay
                                          = date \div MinutesPerDay
  THEN CHOOSE i \in 1..Len(doc.exceptions) :
         /\ doc.exceptions[i].date \div MinutesPerDay = date \div MinutesPerDay
         /\ \A j \in 1..(i - 1) :
              doc.exceptions[j].date \div MinutesPerDay # date \div MinutesPerDay
  ELSE 0

DayRuleIndex(doc, date) ==
  IF \E i \in 1..Len(doc.schedules) : doc.schedules[i].dayOfWeek = getDay(date)
  THEN CHOOSE i \in 1..Len(doc.schedules) :
         /\ doc.schedules[i].dayOfWeek = getDay(date)
         /\ \A j \in 1..(i - 1) : doc.schedules[j].dayOfWeek # getDay(date)
  ELSE 0

ActiveRuleIndex(doc, date) ==
  IF \E i \in 1..Len(doc.schedules) :
       doc.schedules[i].dayOfWeek = getDay(date) /\ doc.schedules[i].isEnabled
  THEN CHOOSE i \in 1..Len(doc.schedules) :
         /\ doc.schedules[i].dayOfWeek = getDay(date) /\ doc.schedules[i].isEnabled
         /\ \A j \in 1..(i - 1) :
              ~(doc.schedules[j].dayOfWeek = getDay(date) /\ doc.schedules[j].isEnabled)
  ELSE 0

\* the effective window of the date: the exception's custom times where it has
\* them, else the times of the weekday's rule
EffectiveStart(doc, date) ==
  LET ei == ExceptionIndex(doc, date)
  IN IF ei # 0 /\ doc.exceptions[ei].customStartTime # NoTime
     THEN doc.exceptions[ei].customStartTime
     ELSE doc.schedules[DayRuleIndex(doc, date)].startTime

EffectiveEnd(doc, date) ==
  LET ei == ExceptionIndex(doc, date)
  IN IF ei # 0 /\ doc.exceptions[ei].customEndTime # NoTime
     THEN doc.exceptions[ei].customEndTime
     ELSE doc.schedules[DayRuleIndex(doc, date)].endTime

\* the date is open: its weekday has an enabled rule and no exception closes it
DateOpen(doc, date) ==
  /\ ActiveRuleIndex(doc, date) # 0
  /\ LET ei == ExceptionIndex(doc, date) IN ei = 0 \/ doc.exceptions[ei].isAvailable

\* [from, to) overlaps the break at minute resolution
OverlapsBreak(from, to, b) ==
  from < MinuteOfDay(b.endTime) /\ to > MinuteOfDay(b.startTime)

----------------------------------------------------------------------------
(* Slot legality of POST /bookings against the slots request *)

\* the request passed, or failed, the slot-legality step
PassedLegality(q) == q.pc \in {"conflict", "create"} \/ (q.pc = "done" /\ q.status \in {201, 409})

FailedLegality(q) == q.pc = "done" /\ q.err = "Selected time slot is not available"

\* C3: POST /bookings passes the slot-legality step if and only if its timeSlot
\* is the startTime of a slot the slots request returns as available for the
\* same schedule and date
C3_LegalityMatchesGetSlots ==
  \A r \in DOMAIN reqs :
    (/\ SlotsAnswered
     /\ slotsResp.providerId = reqs[r].providerId
     /\ slotsResp.date = reqs[r].date
     /\ PassedLegality(reqs[r]) \/ FailedLegality(reqs[r]))
    => (PassedLegality(reqs[r])
          <=> \E i \in 1..Len(slotsResp.resp.slots) :
                /\ slotsResp.resp.slots[i].startTime = reqs[r].timeSlot
                /\ slotsResp.resp.slots[i].available)

----------------------------------------------------------------------------
(* The slots the slots request returns *)

\* C4: no slot the slots request returns overlaps, at minute resolution, a break
\* of the enabled rule of the requested weekday
C4_NoSlotOverlapsBreak ==
  (SlotsAnswered /\ ActiveRuleIndex(AnsweredDoc, slotsResp.date) # 0) =>
    LET rule  == AnsweredDoc.schedules[ActiveRuleIndex(AnsweredDoc, slotsResp.date)]
        slots == slotsResp.resp.slots
    IN \A i \in 1..Len(slots), j \in 1..Len(rule.breakTimes) :
         ~OverlapsBreak(MinuteOfDay(slots[i].startTime), MinuteOfDay(slots[i].endTime),
                        rule.breakTimes[j])

\* C5: every candidate effectiveStart + k * (slotDuration + bufferTime) that ends
\* at or before the effective end and overlaps no break at minute resolution is
\* among the returned slots
C5_EveryQualifyingCandidateReturned ==
  (SlotsAnswered /\ DateOpen(AnsweredDoc, slotsResp.date)) =>
    LET doc   == AnsweredDoc
        rule  == doc.schedules[ActiveRuleIndex(doc, slotsResp.date)]
        from  == MinuteOfDay(EffectiveStart(doc, slotsResp.date))
        to    == MinuteOfDay(EffectiveEnd(doc, slotsResp.date))
        step  == rule.slotDuration + rule.bufferTime
        slots == slotsResp.resp.slots
    IN \A k \in 0..((to - from) \div step) :
         LET c == from + (k * step)
         IN (/\ c + rule.slotDuration <= to
             /\ \A j \in 1..Len(rule.breakTimes) :
                  ~OverlapsBreak(c, c + rule.slotDuration, rule.breakTimes[j]))
            => \E i \in 1..Len(slots) :
                 /\ MinuteOfDay(slots[i].startTime) = c
                 /\ MinuteOfDay(slots[i].endTime) = c + rule.slotDuration
                 /\ slots[i].available

\* C6: the returned slots are in strictly ascending startTime order and each
\* ends at or before the next one starts, for schedules as POST stores them
\* (times in the 12-hour grammar, slotDuration in 15..480, bufferTime in 0..120)
C6_AscendingNonOverlapping ==
  SlotsAnswered =>
    LET slots == slotsResp.resp.slots
    IN \A i \in 1..(Len(slots) - 1) :
         /\ MinuteOfDay(slots[i].startTime) < MinuteOfDay(slots[i + 1].startTime)
         /\ MinuteOfDay(slots[i].endTime) <= MinuteOfDay(slots[i + 1].startTime)
         /\ MinuteOfDay(slots[i].startTime) < MinuteOfDay(slots[i].endTime)

\* an answer of three or more slots, two of them back to back and two of them
\* apart
C6_SeveralSlotsReturned ==
  /\ SlotsAnswered
  /\ LET slots == slotsResp.resp.slots
     IN /\ Len(slots) >= 3
        /\ \E i \in 1..(Len(slots) - 1) :
             MinuteOfDay(slots[i].endTime) = MinuteOfDay(slots[i + 1].startTime)
        /\ \E i \in 1..(Len(slots) - 1) :
             MinuteOfDay(slots[i].endTime) < MinuteOfDay(slots[i + 1].startTime)

\* C7: every returned slot is slotDuration minutes long, starts at or after the
\* effective start and ends at or before the effective end of the requested
\* date, for schedules as POST stores them
C7_SlotsWithinWindow ==
  (SlotsAnswered /\ Len(slotsResp.resp.slots) > 0) =>
    LET doc   == AnsweredDoc
        rule  == doc.schedules[ActiveRuleIndex(doc, slotsResp.date)]
        slots == slotsResp.resp.slots
    IN /\ ActiveRuleIndex(doc, slotsResp.date) # 0
       /\ \A i \in 1..Len(slots) :
            /\ MinuteOfDay(slots[i].endTime) - MinuteOfDay(slots[i].startTime)
                 = rule.slotDuration
            /\ MinuteOfDay(slots[i].startTime)
                 >= MinuteOfDay(EffectiveStart(doc, slotsResp.date))
            /\ MinuteOfDay(slots[i].endTime)
                 <= MinuteOfDay(EffectiveEnd(doc, slotsResp.date))

\* an answer whose window is no multiple of the step: no break, and the
\* candidate after the last returned slot starts inside the window and would end
\* outside it
C7_LastCandidateCutOff ==
  /\ SlotsAnswered
  /\ Len(slotsResp.resp.slots) > 0
  /\ LET doc   == AnsweredDoc
         rule  == doc.schedules[ActiveRuleIndex(doc, slotsResp.date)]
         slots == slotsResp.resp.slots
         next  == MinuteOfDay(slots[Len(slots)].endTime) + rule.bufferTime
         to    == MinuteOfDay(EffectiveEnd(doc, slotsResp.date))
     IN /\ rule.breakTimes = <<>>
        /\ next < to
        /\ next + rule.slotDuration > to

----------------------------------------------------------------------------
(* Date exceptions in the slots request *)

\* C8: when the schedule holds an exception for the requested date with
\* isAvailable = false, the answer is the empty slot list with the exception's
\* reason as its message, whether the weekday has an enabled rule, a disabled
\* rule or no rule
C8_UnavailableExceptionWins ==
  (SlotsAsked /\ ExceptionIndex(AnsweredDoc, slotsResp.date) # 0) =>
    LET exception == AnsweredDoc.exceptions[ExceptionIndex(AnsweredDoc, slotsResp.date)]
    IN (~exception.isAvailable /\ exception.reason # NoStr) =>
         /\ slotsResp.resp.status = 200
         /\ slotsResp.resp.slots = <<>>
         /\ slotsResp.resp.message = exception.reason

\* C9: when the schedule holds an exception for the requested date with
\* isAvailable = true, the answer's window is the exception's custom times where
\* it has them, else the times of the weekday's rule, and its slots are the ones
\* generated in that window
C9_AvailableExceptionOverrides ==
  (/\ SlotsAsked
   /\ ExceptionIndex(AnsweredDoc, slotsResp.date) # 0
   /\ DayRuleIndex(AnsweredDoc, slotsResp.date) # 0) =>
    LET doc       == AnsweredDoc
        exception == doc.exceptions[ExceptionIndex(doc, slotsResp.date)]
        rule      == doc.schedules[DayRuleIndex(doc, slotsResp.date)]
        startTime == EffectiveStart(doc, slotsResp.date)
        endTime   == EffectiveEnd(doc, slotsResp.date)
    IN exception.isAvailable =>
         /\ slotsResp.resp.status = 200
         /\ slotsResp.resp.startTime = startTime
         /\ slotsResp.resp.endTime = endTime
         /\ slotsResp.resp.slots =
              generateTimeSlots(startTime, endTime, rule.slotDuration, rule.bufferTime,
                                rule.breakTimes, slotsResp.date).slots

----------------------------------------------------------------------------
(* SpecPipeline: one POST /bookings request at a time against a stored      *)
(* schedule of provider p1, with bodies that fail any number of the         *)
(* handler's checks at once                                                 *)

PipelineServices == {"s1", "s2", "s9", NoStr}

PipelineProviders == {"p1", "p2"}

\* an unparsable date, a past day, the coming Monday as a date and as a
\* date-time of that Monday afternoon
PipelineDates == {InvalidDate, DayStart(2), Monday, Monday + 900}

\* a slot of the schedule, a well-formed time outside it, a malformed and an
\* absent one
PipelineTimeSlots ==
  {TimeStr(9, 0, "A"), TimeStr(1, 0, "P"), <<"2", "5", ":", "0", "0">>, NoTime}

PipelineBodies ==
  { CreateBody(sv, "c1", p, d, t) :
      sv \in PipelineServices, p \in PipelineProviders, d \in PipelineDates,
      t \in PipelineTimeSlots }

PipelineBookingStart(r) == CreateStart(r, Callers, PipelineBodies, RequestTimes)

InitPipeline ==
  /\ availabilities = {StoredSchedule("p1")}
  /\ bookings = {}
  /\ nextId = 1
  /\ reqs = [r \in ReqIds |-> IdleReq]
  /\ slotsResp = NoCall
  /\ timeCall = NoTimeCall
  /\ loop = NoLoop
  /\ registry = NoRegistry

NextPipeline ==
  \/ \E r \in ReqIds : PipelineBookingStart(r)
  \/ \E r \in ReqIds : CreateBookingSlots(r)
  \/ \E r \in ReqIds : CreateBookingConflict(r)
  \/ \E r \in ReqIds : CreateBookingCreate(r)
  \/ \E r \in ReqIds : CreateBookingReturn(r)

SpecPipeline == InitPipeline /\ [][NextPipeline]_vars

----------------------------------------------------------------------------
(* C11: the order of the checks of POST /bookings *)

\* the checks in the order the handler is said to apply them, each as a test of
\* the request alone: 1 authorization, 2 required fields, 3 service and its
\* provider, 4 future date, 5 timeSlot format, 6 schedule existence, 7 slot
\* legality, 8 conflict.  An unparsable date is no instant, so it is not at or
\* before the request time.
FailsCheck(k, caller, body, now) ==
  CASE k = 1 -> caller # body.customerId /\ Role(caller) # "admin"
    [] k = 2 -> \/ body.serviceId = NoStr \/ body.customerId = NoStr
                \/ body.providerId = NoStr \/ body.date = NoDate
                \/ body.timeSlot = NoTime
    [] k = 3 -> \/ body.serviceId \notin Services
                \/ ServiceProvider(body.serviceId) # body.providerId
    [] k = 4 -> body.date # InvalidDate /\ body.date <= now
    [] k = 5 -> ~TimeRegexTest(body.timeSlot)
    [] k = 6 -> \A a \in availabilities : a.providerId # body.providerId
    [] k = 7 -> ~requestedSlotExists(getAvailableSlotsInternal(body.providerId, body.date),
                                     body.timeSlot)
    [] OTHER -> \E b \in bookings : /\ b.providerId = body.providerId
                                    /\ b.date = body.date
                                    /\ b.timeSlot = body.timeSlot
                                    /\ b.status \in ActiveStatuses

\* the reasons a rejection by check k carries
CheckReasons(k) ==
  CASE k = 1 -> {"You can only book as a customer"}
    [] k = 2 -> {"serviceId, customerId, providerId, date, and timeSlot are required"}
    [] k = 3 -> {"Service not found", "Service does not belong to this provider"}
    [] k = 4 -> {"Booking date must be in the future"}
    [] k = 5 -> {"Invalid timeSlot format"}
    [] k = 6 -> {"Provider has no availability schedule configured"}
    [] k = 7 -> {"Selected time slot is not available"}
    [] OTHER -> {"This provider is already booked for the selected time slot"}

StartChecks == 1..6

FailedStartChecks(caller, body, now) ==
  {k \in StartChecks : FailsCheck(k, caller, body, now)}

EarliestCheck(failed) == CHOOSE k \in failed : \A j \in failed : k <= j

\* the body a request in flight was made from
BodyOf(q) == CreateBody(q.serviceId, q.customerId, q.providerId, q.date, q.timeSlot)

\* C11: a request that fails one or more of the checks of authorization,
\* required fields, service, future date, timeSlot format and schedule
\* existence is rejected with the reason of the earliest of them, whatever
\* later checks it fails too; slot legality is decided only for a request that
\* passed those, and the conflict only for one whose slot is legal.
C11_EarliestFailingCheckWins ==
  /\ \A caller \in Callers, body \in PipelineBodies, now \in RequestTimes :
       LET out    == createBookingStart(caller, body, now)
           failed == FailedStartChecks(caller, body, now)
       IN IF failed # {}
          THEN /\ out.pc = "done"
               /\ out.status \in {400, 403}
               /\ out.err \in CheckReasons(EarliestCheck(failed))
          ELSE out.err \notin UNION {CheckReasons(k) : k \in 1..8}
  /\ \A r \in DOMAIN reqs :
       LET q == reqs[r]
       IN /\ (q.pc \in {"slots", "conflict", "create"} \/ (q.pc = "done" /\ q.status \in {201, 409})
                \/ (q.pc = "done" /\ q.err \in CheckReasons(7)))
             => \A k \in 2..6 : ~FailsCheck(k, q.customerId, BodyOf(q), q.at)
          /\ (q.pc = "done" /\ q.err \in CheckReasons(7))
             => FailsCheck(7, q.customerId, BodyOf(q), q.at)
          /\ (q.pc \in {"conflict", "create"} \/ (q.pc = "done" /\ q.status \in {201, 409}))
             => ~FailsCheck(7, q.customerId, BodyOf(q), q.at)
          /\ (q.pc = "done" /\ q.status = 409)
             => FailsCheck(8, q.customerId, BodyOf(q), q.at)

\* a request was rejected for its service although its date is past, its
\* timeSlot malformed and its provider without a schedule
C11_RejectedForEarliestOfSeveral ==
  \E r \in DOMAIN reqs :
    LET q == reqs[r]
    IN /\ q.pc = "done"
       /\ q.err \in CheckReasons(3)
       /\ FailsCheck(4, q.customerId, BodyOf(q), q.at)
       /\ FailsCheck(5, q.customerId, BodyOf(q), q.at)
       /\ FailsCheck(6, q.customerId, BodyOf(q), q.at)

----------------------------------------------------------------------------
(* C12: bookings lie in the future *)

\* the instant a booking starts: its calendar date combined with its timeSlot
SlotInstant(date, timeSlot) ==
  ((date \div MinutesPerDay) * MinutesPerDay) + MinuteOfDay(timeSlot)

\* C12: a request is accepted only if the instant formed by its calendar date
\* and its timeSlot is strictly later than the time of the request, so no
\* booking is stored whose slot starts at or before the request time.
C12_AcceptedSlotStartsAfterRequest ==
  \A r \in DOMAIN reqs :
    (reqs[r].pc = "done" /\ reqs[r].status = 201)
      => SlotInstant(reqs[r].date, reqs[r].timeSlot) > reqs[r].at

----------------------------------------------------------------------------
(* C13: the booking lifecycle *)

\* the transitions of the lifecycle
StatusEdges ==
  { <<"pending", "confirmed">>, <<"confirmed", "completed">>,
    <<"pending", "cancelled">>, <<"confirmed", "cancelled">> }

\* C13: the status of a stored booking changes only along pending -> confirmed,
\* confirmed -> completed, pending -> cancelled and confirmed -> cancelled.
C13_StatusFollowsLifecycle ==
  [][\A b \in bookings : \A c \in bookings' :
       (b.id = c.id /\ b.status # c.status) => <<b.status, c.status>> \in StatusEdges]_vars

----------------------------------------------------------------------------
(* C14: the status of a stored booking *)

\* the status values a PATCH may carry: the four of the enum and one outside it
PatchStatuses == ValidStatuses \cup {"archived"}

\* C14: PATCH accepts each of pending, confirmed, completed and cancelled as
\* the new status of a booking whatever its current status is, completed and
\* cancelled included, and rejects a value outside the four leaving the
\* bookings unchanged; every stored booking's status is one of the four.
C14_StatusCheckedForMembershipOnly ==
  /\ \A b \in bookings : b.status \in ValidStatuses
  /\ \A b \in bookings : \A st \in PatchStatuses :
       LET after == updateBooking(b.customerId, b.id, Updates(st, NoDate, NoTime))
       IN IF st \in ValidStatuses
          THEN after = (bookings \ {b}) \cup {[b EXCEPT !.status = st]}
          ELSE after = bookings

\* a booking has been moved to completed or cancelled, where a lock would apply
C14_TerminalBookingStored ==
  \E b \in bookings : b.status \in {"completed", "cancelled"}

----------------------------------------------------------------------------
(* C15: what POST /bookings stores *)

\* booking b holds the fields of request q
HoldsRequest(b, q) ==
  /\ b.serviceId = q.serviceId
  /\ b.customerId = q.customerId
  /\ b.providerId = q.providerId
  /\ b.date = q.date
  /\ b.timeSlot = q.timeSlot

\* C15: the step that answers a request with 201 adds exactly one booking,
\* with status pending and the requested service, customer, provider, date
\* and timeSlot; every other step of a request, a rejection included, leaves
\* the stored bookings unchanged.
C15_AcceptedAddsOnePendingBooking ==
  [][\A r \in DOMAIN reqs :
       (reqs'[r] # reqs[r]) =>
         IF reqs'[r].pc = "done" /\ reqs'[r].status = 201
         THEN \E b \in bookings' \ bookings :
                /\ bookings' = bookings \cup {b}
                /\ \A c \in bookings : c.id # b.id
                /\ b.status = "pending"
                /\ HoldsRequest(b, reqs'[r])
         ELSE bookings' = bookings]_vars

\* a request has been accepted and its booking is stored
C15_AcceptedAndStored ==
  \E r \in DOMAIN reqs :
    /\ reqs[r].pc = "done"
    /\ reqs[r].status = 201
    /\ \E b \in bookings : b.status = "pending" /\ HoldsRequest(b, reqs[r])

----------------------------------------------------------------------------
(* SpecServe: the slots request between the booking handlers, against a     *)
(* schedule collection that no request changes: provider p1 has stored no   *)
(* schedule, a Monday rule, or a Tuesday rule                               *)

TuesdaySchedule(providerId) ==
  availabilityData(providerId,
    ScheduleBody(<<Rule(2, TRUE, TimeStr0(9, 0, "A"), TimeStr0(11, 30, "A"), 60, 0, <<>>)>>,
                 <<>>, NoStr, 0))

ServeCollections == { {}, {StoredSchedule("p1")}, {TuesdaySchedule("p1")} }

InitServe ==
  /\ availabilities \in ServeCollections
  /\ bookings = {}
  /\ nextId = 1
  /\ reqs = [r \in ReqIds |-> IdleReq]
  /\ slotsResp = NoCall
  /\ timeCall = NoTimeCall
  /\ loop = NoLoop
  /\ registry = NoRegistry

NextServe ==
  \/ GetSlots
  \/ \E r \in ReqIds : CreateBookingStart(r)
  \/ \E r \in ReqIds : CreateBookingSlots(r)
  \/ \E r \in ReqIds : CreateBookingConflict(r)
  \/ \E r \in ReqIds : CreateBookingCreate(r)
  \/ \E r \in ReqIds : CreateBookingReturn(r)
  \/ PatchBooking
  \/ PutBooking
  \/ DeleteBooking

SpecServe == InitServe /\ [][NextServe]_vars

----------------------------------------------------------------------------
(* C16: the slots answer does not depend on bookings *)

\* C16: while the stored schedule is not changed, a slots request for the same
\* provider and date is answered now exactly as it was answered before,
\* whatever bookings have been created, updated or deleted and whatever other
\* slots requests have been made since.
C16_SlotsAnswerIndependentOfBookings ==
  slotsResp.called
    => slotsResp.resp = getSlotsHandler(slotsResp.caller, slotsResp.providerId, slotsResp.date)

\* slots were returned, and one of them holds an active booking
C16_ReturnedSlotIsBooked ==
  /\ slotsResp.called
  /\ slotsResp.resp.status = 200
  /\ \E i \in 1..Len(slotsResp.resp.slots) : \E b \in bookings :
       /\ b.providerId = slotsResp.providerId
       /\ b.date = slotsResp.date
       /\ b.timeSlot = slotsResp.resp.slots[i].startTime
       /\ b.status \in ActiveStatuses

----------------------------------------------------------------------------
(* C19: the failure outcomes of the slots request *)

\* the caller of the slots request may view the provider's slots
SlotsCallerAllowed ==
  \/ slotsResp.caller = slotsResp.providerId
  \/ Role(slotsResp.caller) \in {"admin", "customer"}

\* C19: a slots request of an allowed caller for an existing provider is
\* answered 400 "Invalid date format" when the date cannot be parsed, whether
\* or not a schedule is stored; 404 "not set up" when the date is valid and no
\* schedule is stored; and 200 with an empty slot list and a message when the
\* weekday has no enabled rule and the date no exception.
C19_SlotsFailureOutcomes ==
  (slotsResp.called /\ SlotsCallerAllowed /\ slotsResp.providerId \in Users) =>
    LET resp   == slotsResp.resp
        stored == {a \in availabilities : a.providerId = slotsResp.providerId}
    IN /\ slotsResp.date = InvalidDate
            => resp.status = 400 /\ resp.err = "Invalid date format. Use YYYY-MM-DD."
       /\ (slotsResp.date # InvalidDate /\ stored = {})
            => /\ resp.status = 404
               /\ resp.err = "Provider has not set up availability schedule"
       /\ \A doc \in stored :
            (/\ slotsResp.date # InvalidDate
             /\ ActiveRuleIndex(doc, slotsResp.date) = 0
             /\ ExceptionIndex(doc, slotsResp.date) = 0)
            => /\ resp.status = 200
               /\ resp.err = NoStr
               /\ resp.slots = <<>>
               /\ resp.message # NoStr

\* an unparsable date was asked of a provider without a schedule, and the
\* answer names the date
C19_InvalidDateWithoutSchedule ==
  /\ slotsResp.called
  /\ SlotsCallerAllowed
  /\ slotsResp.date = InvalidDate
  /\ \A a \in availabilities : a.providerId # slotsResp.providerId
  /\ slotsResp.resp.status = 400

----------------------------------------------------------------------------
(* SpecTime: the time-string helpers of the two controllers applied to      *)
(* 12-hour time strings in every spelling: a string is parsed, the hours    *)
(* and minutes are set on a day with setHours, and the result is formatted  *)

\* the spellings of the hour: 1..12, and 01..09
HourSpellings == {NumStr(h) : h \in 1..12} \cup {PadStart2(h) : h \in 1..9}

MinuteSpellings == {PadStart2(m) : m \in {0, 5, 30, 59}}

\* no space or one space before the period
SeparatorSpellings == {<<>>, <<" ">>}

PeriodSpellings ==
  { <<"A", "M">>, <<"a", "m">>, <<"A", "m">>, <<"a", "M">>,
    <<"P", "M">>, <<"p", "m">>, <<"P", "m">>, <<"p", "M">> }

\* the strings of the 12-hour grammar
GrammarTimes ==
  { h \o <<":">> \o m \o sep \o per :
      h \in HourSpellings, m \in MinuteSpellings, sep \in SeparatorSpellings,
      per \in PeriodSpellings }

\* strings outside the grammar, some of which the parser's regex still matches
OtherTimes ==
  { <<"1", "3", ":", "0", "0", " ", "P", "M">>, <<"0", ":", "3", "0", " ", "A", "M">>,
    <<"9", ":", "6", "0", " ", "A", "M">>, <<"9", ":", "0", "0">>,
    <<"9", ":", "0", "0", " ", " ", "A", "M">>, <<>> }

TimeInputs == GrammarTimes \cup OtherTimes

\* the string a helper is about to be called with
TimeCallOf(t) == [NoTimeCall EXCEPT !.input = t]

\* currentTime.setHours(startTime.hours, startTime.minutes, 0, 0) and
\* formatTimeString(currentTime) of the availability controller
ParseAndFormat ==
  /\ ~timeCall.called
  /\ LET p == parseTimeString(timeCall.input)
     IN timeCall' = [timeCall EXCEPT
                       !.called = TRUE, !.helper = "availability",
                       !.ok = p.ok, !.hours = p.hours, !.minutes = p.minutes,
                       !.output = IF p.ok
                                  THEN formatTimeString(setHours(Monday, p.hours, p.minutes))
                                  ELSE NoTime]
  /\ UNCHANGED <<availabilities, bookings, nextId, reqs, slotsResp, loop, registry>>

\* the same with the copies of the booking controller
ParseAndFormatInternal ==
  /\ ~timeCall.called
  /\ LET p == parseTimeStringInternal(timeCall.input)
     IN timeCall' = [timeCall EXCEPT
                       !.called = TRUE, !.helper = "booking",
                       !.ok = p.ok, !.hours = p.hours, !.minutes = p.minutes,
                       !.output = IF p.ok
                                  THEN formatTimeStringInternal(setHours(Monday, p.hours, p.minutes))
                                  ELSE NoTime]
  /\ UNCHANGED <<availabilities, bookings, nextId, reqs, slotsResp, loop, registry>>

InitTime ==
  /\ availabilities = {}
  /\ bookings = {}
  /\ nextId = 1
  /\ reqs = [r \in ReqIds |-> IdleReq]
  /\ slotsResp = NoCall
  /\ timeCall \in {TimeCallOf(t) : t \in TimeInputs}
  /\ loop = NoLoop
  /\ registry = NoRegistry

NextTime == ParseAndFormat \/ ParseAndFormatInternal

SpecTime == InitTime /\ [][NextTime]_vars

----------------------------------------------------------------------------
(* C17: parsing and formatting a time string *)

\* the parts of a string of the grammar
ColonAt(t) == CHOOSE i \in 1..Len(t) : t[i] = ":"

HourNumber(t) ==
  IF ColonAt(t) = 2 THEN DigitVal(t[1]) ELSE (10 * DigitVal(t[1])) + DigitVal(t[2])

MinuteNumber(t) == (10 * DigitVal(t[ColonAt(t) + 1])) + DigitVal(t[ColonAt(t) + 2])

IsPM(t) == t[Len(t) - 1] \in {"P", "p"}

\* the normalized spelling: no leading zero, one space, upper-case period
Normalized(t) ==
  (IF ColonAt(t) = 3 /\ t[1] = "0" THEN <<t[2]>> ELSE SubSeq(t, 1, ColonAt(t) - 1))
    \o <<":", t[ColonAt(t) + 1], t[ColonAt(t) + 2], " ">>
    \o (IF IsPM(t) THEN <<"P", "M">> ELSE <<"A", "M">>)

\* the hour of the day a string of the grammar denotes
HourOfDay(t) ==
  IF HourNumber(t) = 12 THEN (IF IsPM(t) THEN 12 ELSE 0)
  ELSE IF IsPM(t) THEN HourNumber(t) + 12 ELSE HourNumber(t)

\* C17: every string of the 12-hour grammar is parsed, 12:mm AM to hour 0,
\* 12:mm PM to hour 12 and h:mm PM to hour h + 12 for h < 12, with its minutes;
\* formatting the parsed time gives the string's normalized spelling.
C17_FormatOfParseIsNormalized ==
  (timeCall.called /\ timeCall.input \in GrammarTimes) =>
    /\ timeCall.ok
    /\ timeCall.hours = HourOfDay(timeCall.input)
    /\ timeCall.minutes = MinuteNumber(timeCall.input)
    /\ timeCall.output = Normalized(timeCall.input)

\* "12:05am" was parsed and formatted: a spelling that differs from its
\* normalized one at midnight
C17_MidnightRespelled ==
  /\ timeCall.called
  /\ timeCall.input = <<"1", "2", ":", "0", "5", "a", "m">>
  /\ timeCall.hours = 0
  /\ timeCall.output = <<"1", "2", ":", "0", "5", " ", "A", "M">>

----------------------------------------------------------------------------
(* C18: the booking horizon *)

----------------------------------------------------------------------------
(* SpecSched: the schedule handlers POST, PATCH and DELETE                  *)
(* /availability/provider/:providerId of two providers, in any order        *)

NextSched ==
  \/ SetSchedule
  \/ PatchSchedule
  \/ DeleteSchedule

SpecSched == Init /\ [][NextSched]_vars

----------------------------------------------------------------------------
(* C20: one schedule per provider *)

\* the stored schedules of a provider in a collection
SchedulesOf(collection, providerId) == {a \in collection : a.providerId = providerId}

\* C20: at most one schedule is stored per provider; POST by the provider
\* with a body that has schedules leaves exactly the document made from that
\* body as the provider's schedule, whether one was stored before or not, and
\* leaves the other providers' schedules alone.
C20_OneSchedulePerProvider ==
  /\ \A a \in availabilities : \A b \in availabilities :
       a.providerId = b.providerId => a = b
  /\ \A p \in ScheduleTargets : \A body \in ScheduleBodies :
       LET after == setSchedule(p, p, body)
       IN /\ \A o \in ScheduleTargets \ {p} :
               SchedulesOf(after, o) = SchedulesOf(availabilities, o)
          /\ IF Len(body.schedules) > 0
             THEN SchedulesOf(after, p) = {availabilityData(p, body)}
             ELSE SchedulesOf(after, p) = SchedulesOf(availabilities, p)

\* both providers have a schedule, and one of them is no longer the document
\* POST stored: a POST now replaces it
C20_PatchedScheduleStored ==
  /\ \A p \in ScheduleTargets : SchedulesOf(availabilities, p) # {}
  /\ \E a \in availabilities : \E body \in ScheduleBodies :
       /\ Len(body.schedules) > 0
       /\ a # availabilityData(a.providerId, body)

----------------------------------------------------------------------------
(* C21: who may change a provider's schedule *)

\* the caller is neither the provider nor an admin
Stranger(caller, providerId) == caller # providerId /\ Role(caller) # "admin"

\* a POST, PATCH or DELETE for the provider by a stranger is answered 403 and
\* changes nothing
StrangerRejected ==
  \A caller \in Callers : \A p \in ScheduleTargets :
    Stranger(caller, p) =>
      /\ \A body \in ScheduleBodies :
           /\ setScheduleStatus(caller, p, body) = 403
           /\ setSchedule(caller, p, body) = availabilities
      /\ \A body \in PatchBodies :
           /\ patchScheduleStatus(caller, p, body) = 403
           /\ patchSchedule(caller, p, body) = availabilities
      /\ deleteScheduleStatus(caller, p) = 403
      /\ deleteSchedule(caller, p) = availabilities

\* a step that changes the provider's schedule is the effect of a request of
\* the provider or of an admin
ChangedByOwnerOrAdmin ==
  \A p \in ScheduleTargets :
    SchedulesOf(availabilities', p) # SchedulesOf(availabilities, p) =>
      \E caller \in Callers :
        /\ ~Stranger(caller, p)
        /\ \/ \E body \in ScheduleBodies : availabilities' = setSchedule(caller, p, body)
           \/ \E body \in PatchBodies : availabilities' = patchSchedule(caller, p, body)
           \/ availabilities' = deleteSchedule(caller, p)

\* C21: a setSchedule, patchSchedule or deleteSchedule call for provider P by
\* a caller who is neither P nor an admin is answered 403 and leaves the
\* stored schedules unchanged; every change of P's schedule is the effect of
\* a call by P or by an admin.
C21_OnlyOwnerOrAdminChangesSchedule ==
  []StrangerRejected /\ [][ChangedByOwnerOrAdmin]_vars

\* provider p2 has a schedule, which the callers c1 and p1 are strangers to
C21_StrangerFacesStoredSchedule ==
  /\ SchedulesOf(availabilities, "p2") # {}
  /\ \E caller \in Callers : Stranger(caller, "p2") /\ Role(caller) = "provider"

----------------------------------------------------------------------------
(* SpecRules: schedules submitted with POST and PATCH whose rules and       *)
(* breaks carry any times and durations, and the slots request on what is   *)
(* stored                                                                   *)

\* a string that is no time
Garbage == <<"n", "o", "o", "n">>

\* Monday rules: a regular one, one that ends before it starts, an empty
\* window, a slot longer than the window, a break with times that are no
\* times, and a start that is no time
SubmittedRules ==
  { Rule(1, TRUE, TimeStr0(9, 0, "A"), TimeStr0(11, 30, "A"), 60, 0, <<>>),
    Rule(1, TRUE, TimeStr0(5, 0, "P"), TimeStr0(9, 0, "A"), 60, 0, <<>>),
    Rule(1, TRUE, TimeStr0(9, 0, "A"), TimeStr0(9, 0, "A"), 60, 0, <<>>),
    Rule(1, TRUE, TimeStr0(9, 0, "A"), TimeStr(9, 30, "A"), 60, 0, <<>>),
    Rule(1, TRUE, TimeStr0(9, 0, "A"), TimeStr0(11, 30, "A"), 60, 0,
         <<Break(Garbage, TimeStr0(1, 0, "P"))>>),
    Rule(1, TRUE, Garbage, TimeStr0(11, 30, "A"), 60, 0, <<>>) }

SubmittedBodies == { ScheduleBody(<<rule>>, <<>>, NoStr, 0) : rule \in SubmittedRules }

SubmittedPatches ==
  { PatchBody({"schedules"}, <<rule>>, <<>>, NoStr, 0) : rule \in SubmittedRules }
    \cup { PatchBody({"exceptions"}, <<>>,
                     <<Exception(Tuesday, FALSE, NoTime, NoTime, "Holiday")>>, NoStr, 0) }

SubmitSchedule ==
  /\ \E caller \in Callers, providerId \in ScheduleTargets, body \in SubmittedBodies :
       availabilities' = setSchedule(caller, providerId, body)
  /\ UNCHANGED <<bookings, nextId, reqs, slotsResp, timeCall, loop, registry>>

SubmitPatch ==
  /\ \E caller \in Callers, providerId \in ScheduleTargets, body \in SubmittedPatches :
       availabilities' = patchSchedule(caller, providerId, body)
  /\ UNCHANGED <<bookings, nextId, reqs, slotsResp, timeCall, loop, registry>>

NextRules ==
  \/ SubmitSchedule
  \/ SubmitPatch
  \/ GetSlots

SpecRules == Init /\ [][NextRules]_vars

----------------------------------------------------------------------------
(* C22: the window of a stored rule *)

\* C22: every stored weekly rule whose times are times of the grammar starts
\* before it ends and has a slotDuration that fits between its start and its
\* end.
C22_StoredRuleHasRoomForASlot ==
  \A a \in availabilities : \A i \in 1..Len(a.schedules) :
    LET rule == a.schedules[i]
    IN (TimeRegexTest(rule.startTime) /\ TimeRegexTest(rule.endTime)) =>
         /\ MinuteOfDay(rule.startTime) < MinuteOfDay(rule.endTime)
         /\ rule.slotDuration <= MinuteOfDay(rule.endTime) - MinuteOfDay(rule.startTime)

----------------------------------------------------------------------------
(* SpecDelete: schedules of both providers are stored; they are deleted     *)
(* between POST /bookings requests and slots requests                       *)

NextDelete ==
  \/ DeleteSchedule
  \/ GetSlots
  \/ \E r \in ReqIds : CreateBookingStart(r)
  \/ \E r \in ReqIds : CreateBookingSlots(r)
  \/ \E r \in ReqIds : CreateBookingConflict(r)
  \/ \E r \in ReqIds : CreateBookingCreate(r)
  \/ \E r \in ReqIds : CreateBookingReturn(r)

InitDelete ==
  /\ availabilities = {StoredSchedule("p1"), StoredSchedule("p2")}
  /\ bookings = {}
  /\ nextId = 1
  /\ reqs = [r \in ReqIds |-> IdleReq]
  /\ slotsResp = NoCall
  /\ timeCall = NoTimeCall
  /\ loop = NoLoop
  /\ registry = NoRegistry

SpecDelete == InitDelete /\ [][NextDelete]_vars

----------------------------------------------------------------------------
(* C23: what deleting a schedule leaves alone *)

\* a step that removes the schedule of a provider leaves the bookings and the
\* other providers' schedules as they are
DeleteLeavesTheRest ==
  \A p \in ScheduleTargets :
    (SchedulesOf(availabilities, p) # {} /\ SchedulesOf(availabilities', p) = {}) =>
      /\ bookings' = bookings
      /\ \A o \in ScheduleTargets \ {p} :
           SchedulesOf(availabilities', o) = SchedulesOf(availabilities, o)

\* the provider's own DELETE removes the stored schedule; a provider without a
\* schedule has slots requests answered 404 "not set up" and POST /bookings
\* requests that pass the earlier checks rejected for the missing schedule
DeletedScheduleOutcomes ==
  \A p \in ScheduleTargets :
    /\ SchedulesOf(availabilities, p) # {} =>
         /\ deleteScheduleStatus(p, p) = 200
         /\ deleteSchedule(p, p) = availabilities \ SchedulesOf(availabilities, p)
    /\ SchedulesOf(availabilities, p) = {} =>
         /\ getSlotsHandler("c1", p, Monday)
              = ErrResponse(404, "Provider has not set up availability schedule")
         /\ \A body \in CreateBodies : \A now \in RequestTimes :
              (/\ body.providerId = p
               /\ \A k \in 1..5 : ~FailsCheck(k, body.customerId, body, now))
              => LET out == createBookingStart(body.customerId, body, now)
                 IN /\ out.pc = "done"
                    /\ out.status = 400
                    /\ out.err \in CheckReasons(6)

\* C23: deleting a provider's schedule leaves every stored booking, its status
\* included, and every other schedule unchanged; afterwards a slots request
\* for the provider is answered that no schedule is set up and a POST
\* /bookings for the provider is rejected at the schedule-existence check.
C23_DeleteScheduleKeepsBookings ==
  []DeletedScheduleOutcomes /\ [][DeleteLeavesTheRest]_vars

\* the schedule of a provider with a stored booking has been deleted, and a
\* later booking request for the provider was rejected for it
C23_BookingOutlivesSchedule ==
  \E b \in bookings :
    /\ SchedulesOf(availabilities, b.providerId) = {}
    /\ \E r \in DOMAIN reqs :
         /\ reqs[r].pc = "done"
         /\ reqs[r].providerId = b.providerId
         /\ reqs[r].err \in CheckReasons(6)

----------------------------------------------------------------------------
(* C24: what PATCH of a schedule changes *)

\* document new is document old with exactly the fields present in the body
\* replaced by the body's values
PatchedExactly(old, new, body) ==
  /\ new.providerId = old.providerId
  /\ new.schedules = IF "schedules" \in body.has THEN body.schedules ELSE old.schedules
  /\ new.exceptions = IF "exceptions" \in body.has THEN body.exceptions ELSE old.exceptions
  /\ new.timezone = IF "timezone" \in body.has THEN body.timezone ELSE old.timezone
  /\ new.advanceBookingDays = IF "advanceBookingDays" \in body.has
                              THEN body.advanceBookingDays ELSE old.advanceBookingDays

\* C24: a PATCH by the provider or an admin is answered 404 and stores
\* nothing when the provider has no schedule; when it succeeds, the stored
\* schedule differs from the one before in exactly the fields present in the
\* request among schedules, exceptions, timezone and advanceBookingDays; a
\* rejected PATCH changes nothing; other providers' schedules are untouched.
C24_PatchChangesPresentFieldsOnly ==
  \A caller \in Callers : \A p \in ScheduleTargets : \A body \in PatchBodies :
    ~Stranger(caller, p) =>
      LET status == patchScheduleStatus(caller, p, body)
          after  == patchSchedule(caller, p, body)
      IN /\ \A o \in ScheduleTargets \ {p} :
              SchedulesOf(after, o) = SchedulesOf(availabilities, o)
         /\ IF SchedulesOf(availabilities, p) = {}
            THEN status = 404 /\ after = availabilities
            ELSE IF status = 200
            THEN \A old \in SchedulesOf(availabilities, p) :
                   \E new \in after :
                     /\ SchedulesOf(after, p) = {new}
                     /\ PatchedExactly(old, new, body)
            ELSE after = availabilities

\* a schedule is stored whose timezone and exceptions were patched in
\* separate requests
C24_TwicePatchedScheduleStored ==
  \E a \in availabilities : a.timezone = "UTC" /\ a.exceptions # <<>>

----------------------------------------------------------------------------
(* C25: PATCH and PUT of a booking against the active bookings *)

\* C25: a step that changes a stored booking never leaves it active on a
\* provider, date and timeSlot that another active booking holds.
C25_UpdateNeverDoubleBooks ==
  [][\A b \in bookings : \A c \in bookings' :
       (b.id = c.id /\ b # c /\ c.status \in ActiveStatuses) =>
         ~\E o \in bookings' :
            /\ o.id # c.id
            /\ o.status \in ActiveStatuses
            /\ SameSlot(o, c)]_vars

----------------------------------------------------------------------------
(* C26: the times of a stored schedule *)

\* C26: the start and end time of every stored weekly rule and of every break
\* of it match the 12-hour grammar, and no slots request is answered with a
\* server error.
C26_StoredTimesParse ==
  /\ \A a \in availabilities : \A i \in 1..Len(a.schedules) :
       LET rule == a.schedules[i]
       IN /\ TimeRegexTest(rule.startTime)
          /\ TimeRegexTest(rule.endTime)
          /\ \A j \in 1..Len(rule.breakTimes) :
               /\ TimeRegexTest(rule.breakTimes[j].startTime)
               /\ TimeRegexTest(rule.breakTimes[j].endTime)
  /\ slotsResp.called => slotsResp.resp.status # 500

----------------------------------------------------------------------------
(* C27: spellings of the requested timeSlot *)

\* C27: a POST /bookings request is not rejected at the slot-legality step
\* when its timeSlot denotes the time at which a slot available for its
\* provider and date starts, however the timeSlot is spelled.
C27_SpellingDoesNotMatter ==
  \A r \in DOMAIN reqs :
    LET q == reqs[r]
        availableSlots == getAvailableSlotsInternal(q.providerId, q.date)
    IN (q.pc = "done" /\ q.err = "Selected time slot is not available") =>
         ~\E i \in 1..Len(availableSlots) :
            /\ availableSlots[i].available
            /\ MinuteOfDay(availableSlots[i].startTime) = MinuteOfDay(q.timeSlot)

----------------------------------------------------------------------------
(* SpecLoop: the while loop of slot generation, one pass a step, in both    *)
(* controllers, for windows, durations and buffers of the schema's ranges   *)

\* [start, end] windows of the loop, one of them empty
LoopWindows == SlotWindows \cup { <<TimeStr0(9, 0, "A"), TimeStr0(9, 0, "A")>> }

\* slotDuration of 15..480 and bufferTime of 0..120
LoopDurations == {15, 50, 60, 480}

LoopBuffers == {0, 7, 120}

LoopControllers == {"availability", "booking"}

\* the loop variables as set before the while statement
LoopStart(controller, w, slotDuration, bufferTime) ==
  LET start == parseTimeString(w[1])
      end   == parseTimeString(w[2])
  IN [pc |-> "run", controller |-> controller,
      start |-> setHours(Monday, start.hours, start.minutes),
      currentTime |-> setHours(Monday, start.hours, start.minutes),
      endDateTime |-> setHours(Monday, end.hours, end.minutes),
      slotDuration |-> slotDuration, bufferTime |-> bufferTime, passes |-> 0]

InitLoop ==
  /\ availabilities = {}
  /\ bookings = {}
  /\ nextId = 1
  /\ reqs = [r \in ReqIds |-> IdleReq]
  /\ slotsResp = NoCall
  /\ timeCall = NoTimeCall
  /\ loop \in { LoopStart(c, w, d, b) :
                  c \in LoopControllers, w \in LoopWindows, d \in LoopDurations,
                  b \in LoopBuffers }
  /\ registry = NoRegistry

\* one pass of the loop of generateTimeSlots
LoopPass ==
  /\ loop.pc = "run" /\ loop.controller = "availability"
  /\ loop.currentTime < loop.endDateTime
  /\ loop' = [loop EXCEPT
                !.currentTime = NextSlotStart(loop.currentTime, loop.slotDuration,
                                              loop.bufferTime),
                !.passes = @ + 1]
  /\ UNCHANGED <<availabilities, bookings, nextId, reqs, slotsResp, timeCall, registry>>

\* one pass of the loop of getAvailableSlotsInternal
LoopPassInternal ==
  /\ loop.pc = "run" /\ loop.controller = "booking"
  /\ loop.currentTime < loop.endDateTime
  /\ loop' = [loop EXCEPT
                !.currentTime = loop.currentTime + loop.slotDuration + loop.bufferTime,
                !.passes = @ + 1]
  /\ UNCHANGED <<availabilities, bookings, nextId, reqs, slotsResp, timeCall, registry>>

\* the loop condition is false: the function returns
LoopExit ==
  /\ loop.pc = "run"
  /\ ~(loop.currentTime < loop.endDateTime)
  /\ loop' = [loop EXCEPT !.pc = "done"]
  /\ UNCHANGED <<availabilities, bookings, nextId, reqs, slotsResp, timeCall, registry>>

NextLoop == LoopPass \/ LoopPassInternal \/ LoopExit

\* the event loop runs the synchronous function to its end
SpecLoop == InitLoop /\ [][NextLoop]_vars /\ WF_vars(NextLoop)

----------------------------------------------------------------------------
(* C28: slot generation terminates *)

\* ceil(a / b) for b > 0
CeilDiv(a, b) == (a + b - 1) \div b

\* the passes the loop may make
PassBound ==
  IF loop.endDateTime <= loop.start THEN 0
  ELSE CeilDiv(loop.endDateTime - loop.start, loop.slotDuration + loop.bufferTime)

\* C28: the generation loop makes at most
\* ceil((end - start) / (slotDuration + bufferTime)) passes, none when the end
\* is not after the start, and then returns.
C28_LoopTerminatesWithinBound ==
  /\ [](loop.pc # "idle" => loop.passes <= PassBound)
  /\ <>(loop.pc = "done")

\* a loop over a window with room for several slots has returned after as
\* many passes as the bound allows
C28_LoopReturnedAtBound ==
  /\ loop.pc = "done"
  /\ loop.passes = PassBound
  /\ loop.passes > 1

----------------------------------------------------------------------------
(* C29: who may delete a booking *)

\* C29: a DELETE of a stored booking by an admin, by the booking's customer or
\* by its provider removes the booking; a DELETE by any other user removes
\* nothing.
C29_OwnersAndAdminMayDelete ==
  \A b \in bookings : \A caller \in Users :
    LET after == deleteBooking(caller, b.id)
    IN IF Role(caller) = "admin" \/ caller = b.customerId \/ caller = b.providerId
       THEN after = bookings \ {b}
       ELSE after = bookings

----------------------------------------------------------------------------
(* SpecSockets: the online-user registry of the chat relay under socket     *)
(* connect and disconnect events                                            *)

\* the users who open sockets
SocketUsers == {"c1", "p1"}

\* user._id of the document that authenticateSocket loads for one socket: an
\* ObjectId object, a new one for every User.findById; ref names the object
ObjectIdOf(userId, socketId) == [id |-> userId, ref |-> socketId]

\* a user id as a string, as a client sends it in receiverId: a primitive,
\* equal to every string of the same characters and to no object
StringId(userId) == [id |-> userId, ref |-> NoStr]

\* Map.prototype.has: some entry's key is the same value as key
MapHas(map, key) == \E e \in map : e.key = key

\* Map.prototype.get: the value stored under key
MapGet(map, key) == (CHOOSE e \in map : e.key = key).value

\* Map.prototype.set: the entry under key is replaced or added
MapSet(map, key, value) ==
  {e \in map : e.key # key} \cup {[key |-> key, value |-> value]}

\* Map.prototype.delete: the entry under key is removed if present
MapDelete(map, key) == {e \in map : e.key # key}

\* the registry after addOnlineUser (lastSeen, a clock reading, is left out)
addOnlineUser(userId, socketId, userInfo) ==
  [registry EXCEPT
     !.onlineUsers = MapSet(registry.onlineUsers, userId,
                            [socketId |-> socketId, userInfo |-> userInfo]),
     !.userSockets = MapSet(registry.userSockets, socketId, userId)]

\* the registry after removeOnlineUser
removeOnlineUser(socketId) ==
  IF MapHas(registry.userSockets, socketId)
  THEN LET userId == MapGet(registry.userSockets, socketId)
       IN [registry EXCEPT
             !.onlineUsers = MapDelete(registry.onlineUsers, userId),
             !.userSockets = MapDelete(registry.userSockets, socketId)]
  ELSE registry

isUserOnline(userId) == MapHas(registry.onlineUsers, userId)

\* io.on('connection'): an authenticated socket of some user is registered
HandleUserConnect ==
  /\ \E s \in SocketIds, u \in SocketUsers :
       /\ registry.sockets[s].state = "new"
       /\ registry' = [addOnlineUser(ObjectIdOf(u, s), s, u) EXCEPT
                         !.sockets[s] = [state |-> "connected", user |-> u]]
  /\ UNCHANGED <<availabilities, bookings, nextId, reqs, slotsResp, timeCall, loop>>

\* socket.on('disconnect'): a connected socket goes away
HandleUserDisconnect ==
  /\ \E s \in SocketIds :
       /\ registry.sockets[s].state = "connected"
       /\ registry' = [removeOnlineUser(s) EXCEPT !.sockets[s].state = "closed"]
  /\ UNCHANGED <<availabilities, bookings, nextId, reqs, slotsResp, timeCall, loop>>

NextSockets == HandleUserConnect \/ HandleUserDisconnect

SpecSockets == Init /\ [][NextSockets]_vars

----------------------------------------------------------------------------
(* C30: who the registry reports online *)

\* the sockets of a user that are connected now
ConnectedSocketsOf(u) ==
  {s \in SocketIds : /\ registry.sockets[s].state = "connected"
                     /\ registry.sockets[s].user = u}

\* C30: after any interleaving of connects and disconnects, isUserOnline of a
\* user's id, asked as sendMessage and handleTyping ask it, is true exactly
\* when at least one socket of that user is connected.
C30_OnlineIffSomeSocketConnected ==
  \A u \in SocketUsers : isUserOnline(StringId(u)) <=> ConnectedSocketsOf(u) # {}

====
